---- MODULE Spec2Model ----
(***************************************************************************)
(* State-machine model of the simulation core of the arcade shooter:       *)
(* GameCanvas.update (one call per animation frame), the deferred boss     *)
(* spawn callback it schedules, the two game-state effects of GameCanvas   *)
(* and the host handlers of App.                                           *)
(*                                                                         *)
(* Numbers.  Lengths, positions and speeds are integers in tenths of a     *)
(* pixel (Px converts), angles are in milliradians, times in milliseconds, *)
(* random draws of Math.random() in thousandths (0..999).  Products with   *)
(* fractions are floored.                                                  *)
(***************************************************************************)
EXTENDS Integers, Sequences, FiniteSets, TLC

VARIABLES
    gameState,          \* App: useState<GameState>
    bestScore,          \* App: useState bestScore
    capturedBest,       \* the bestScore closed over by the onScoreUpdate that
                        \* the running loop calls
    prevGameState,      \* prevGameStateRef
    score,              \* scoreRef
    level,              \* levelRef
    health,             \* healthRef
    lastEnemySpawn,     \* lastEnemySpawnRef
    lastPowerUpSpawn,   \* lastPowerUpSpawnRef
    lastShot,           \* lastShotRef
    lastLevelHealed,    \* lastLevelHealedRef
    bossWarningActive,  \* bossWarningActiveRef
    bossEntranceTimer,  \* bossEntranceTimerRef
    player,             \* playerRef
    enemies,            \* enemiesRef
    bullets,            \* bulletsRef
    powerUps,           \* powerUpsRef
    particles,          \* particlesRef (one entry per createExplosion call)
    bosses,             \* bossesRef
    keys,               \* keysRef: the set of key codes currently down
    touch,              \* touchRef: NoTouch or a point
    clock,              \* Date.now()
    timers,             \* pending setTimeout callbacks, in scheduling order
    events,             \* host callbacks invoked by the last step, in order
    log,                \* what the last update() did, phase by phase
    ticks               \* number of update() calls so far (bounded)

vars == <<gameState, bestScore, capturedBest, prevGameState, score, level, health, lastEnemySpawn,
          lastPowerUpSpawn, lastShot, lastLevelHealed, bossWarningActive,
          bossEntranceTimer, player, enemies, bullets, powerUps, particles,
          bosses, keys, touch, clock, timers, events, log, ticks>>

(***************************************************************************)
(* Bounds of the model.                                                    *)
(***************************************************************************)
MaxTicks == 3

\* Wall-clock advances between two frames (ms).
DtChoices == {16, 1200}

\* Math.random() draws, in thousandths.
RandChoices == {0, 700, 950}

(***************************************************************************)
(* constants.ts                                                            *)
(***************************************************************************)
CANVAS_WIDTH == 800
CANVAS_HEIGHT == 900
PLAYER_SIZE == 50
PLAYER_SPEED == 7
PLAYER_MAX_HEALTH == 3
BULLET_WIDTH == 4
BULLET_HEIGHT == 15
BULLET_SPEED == 15
POWERUP_SIZE == 30
POWERUP_DURATION == 10000

Px(n) == n * 10

\* speed is in tenths of a pixel per tick (2.5 -> 25)
ENEMY_CONFIGS ==
    [BASIC  |-> [width |-> 40, height |-> 40, speed |-> 25, health |-> 1,
                 scoreValue |-> 100, color |-> "#3b82f6"],
     FAST   |-> [width |-> 30, height |-> 30, speed |-> 55, health |-> 1,
                 scoreValue |-> 200, color |-> "#facc15"],
     HEAVY  |-> [width |-> 60, height |-> 60, speed |-> 15, health |-> 6,
                 scoreValue |-> 500, color |-> "#ef4444"],
     RANGED |-> [width |-> 45, height |-> 45, speed |-> 22, health |-> 3,
                 scoreValue |-> 300, color |-> "#f97316"]]

BossLevels == {5, 10, 20, 30, 50}

BOSS_CONFIGS ==
    [l \in BossLevels |->
        CASE l = 5  -> [name |-> "boss5",  width |-> 150, height |-> 100,
                        health |-> 100,   scoreValue |-> 5000,
                        color |-> "#9333ea", speed |-> 12]
          [] l = 10 -> [name |-> "boss10", width |-> 200, height |-> 150,
                        health |-> 300,   scoreValue |-> 15000,
                        color |-> "#c026d3", speed |-> 18]
          [] l = 20 -> [name |-> "boss20", width |-> 250, height |-> 200,
                        health |-> 800,   scoreValue |-> 50000,
                        color |-> "#dc2626", speed |-> 25]
          [] l = 30 -> [name |-> "boss30", width |-> 300, height |-> 250,
                        health |-> 2500,  scoreValue |-> 100000,
                        color |-> "#000000", speed |-> 32]
          [] l = 50 -> [name |-> "boss50", width |-> 400, height |-> 350,
                        health |-> 10000, scoreValue |-> 500000,
                        color |-> "#7f1d1d", speed |-> 40]]

(***************************************************************************)
(* Arithmetic helpers                                                      *)
(***************************************************************************)
Min(a, b) == IF a < b THEN a ELSE b
Max(a, b) == IF a > b THEN a ELSE b
Abs(a) == IF a < 0 THEN -a ELSE a

\* Math.sin on [-pi/2, pi/2], x in milliradians, result in thousandths
\* (Taylor polynomial to the 7th power).
SinPoly(x) ==
    LET x2 == (x * x) \div 1000
        x3 == (x2 * x) \div 1000
        x5 == (x3 * x2) \div 1000
        x7 == (x5 * x2) \div 1000
    IN  x - (x3 \div 6) + (x5 \div 120) - (x7 \div 5040)

\* Math.sin(angle), angle in milliradians, result in thousandths
MathSin(a) ==
    LET n == ((a + 3142) % 6283) - 3142
        r == IF n > 1571 THEN 3142 - n ELSE IF n < -1571 THEN -3142 - n ELSE n
    IN  IF r = 0 THEN 0
        ELSE IF r >= 1570 THEN 1000
        ELSE IF r <= -1570 THEN -1000
        ELSE SinPoly(r)

\* Math.cos(angle)
MathCos(a) == MathSin(a + 1571)

\* Math.atan(n/d) for 0 <= n <= d, d > 0, in milliradians
\* (z*pi/4 + 0.273*z*(1-z))
AtanUnit(n, d) ==
    LET z == (n * 1000) \div d
    IN  (z * 785) \div 1000 + (273 * z * (1000 - z)) \div 1000000

\* Math.atan2(y, x) in milliradians
MathAtan2(y, x) ==
    LET ay == Abs(y)
        ax == Abs(x)
        base == IF ax = 0 /\ ay = 0 THEN 0
                ELSE IF ay <= ax THEN AtanUnit(ay, ax)
                ELSE 1571 - AtanUnit(ax, ay)
        half == IF x >= 0 THEN base ELSE 3142 - base
    IN  IF y >= 0 THEN half ELSE -half

\* Axis-aligned bounding boxes overlap (strict on the four sides)
Overlaps(a, b) ==
    /\ a.x < b.x + b.width
    /\ a.x + a.width > b.x
    /\ a.y < b.y + b.height
    /\ a.y + a.height > b.y

(***************************************************************************)
(* Values                                                                  *)
(***************************************************************************)
NoTouch == [x |-> -1, y |-> -1]
NoPowerUp == "none"

\* A host callback invocation: type, numeric argument, string argument
Ev(type, value, id) == [type |-> type, value |-> value, id |-> id]

\* What one update() call records about itself
EmptyLog ==
    [tick |-> FALSE,        \* the step was an update() call
     shots |-> 0,           \* player bullets emitted
     shot |-> << >>,        \* the bullets of the shot, as emitted
     bossShots |-> 0,       \* bullets emitted by bosses
     warningStarted |-> FALSE,
     isEntering |-> FALSE,  \* the local isEntering of update()
     spawned |-> 0,         \* regular enemies pushed by the spawner
     spawnBosses |-> 0,     \* bosses present when the spawner was evaluated
     spawnWarning |-> FALSE,\* warning flag when the spawner was evaluated
     escapeBefore |-> << >>,\* enemies before the escape check
     escapeAfter |-> << >>, \* enemies after the escape check
     escapeScoreBefore |-> 0,
     escapeScoreAfter |-> 0,
     kills |-> 0,           \* regular enemies whose health crossed 0 by a bullet
     bossKills |-> 0,       \* bosses marked dead
     awards |-> << >>,      \* the score awards of the bullet pass, in order
     levelUps |-> 0,        \* kill-driven level-ups
     heals |-> 0,
     bossDefeat |-> FALSE,  \* the last boss was removed
     hits |-> << >>,        \* player hits resolved, in order
     shieldAfterHits |-> FALSE,
     pickups |-> 0,
     picked |-> << >>,      \* the types of the power-ups picked up, in order
     attacks |-> << >>,     \* the boss attacks: level, draw and bullets emitted
     spawns |-> << >>,      \* the spawner's pushes: level, draw, elapsed, enemy
     bossesHit |-> << >>,   \* the bosses after the bullet pass, before cleanup
     struck |-> << >>]      \* the hits of the bullet pass: bullet index, the
                            \* bullet's y when it hit, target

\* createExplosion: count particles of life 1 (100 hundredths) and one colour;
\* their random velocity, maxLife and size are cosmetic and not kept.
createExplosion(w, color, count) ==
    [w EXCEPT !.particles = Append(@, [color |-> color, count |-> count, life |-> 100])]

(***************************************************************************)
(* update(): 1. player movement, 2. shooting, 3. bullets                   *)
(* The phases are operators on a record w that holds the refs the frame    *)
(* reads and writes (w.now is the frame's Date.now()).                     *)
(***************************************************************************)
KeyDown(w, a, b) == a \in w.keys \/ b \in w.keys

MovePlayer(w) ==
    LET p == w.player
        moved ==
            IF w.touch # NoTouch
            THEN LET targetX == w.touch.x - p.width \div 2
                     targetY == w.touch.y - p.height \div 2
                 IN  [p EXCEPT !.x = p.x + ((targetX - p.x) * 2) \div 10,
                               !.y = p.y + ((targetY - p.y) * 2) \div 10]
            ELSE [p EXCEPT
                    !.x = p.x
                          - (IF KeyDown(w, "ArrowLeft", "KeyA") THEN p.speed ELSE 0)
                          + (IF KeyDown(w, "ArrowRight", "KeyD") THEN p.speed ELSE 0),
                    !.y = p.y
                          - (IF KeyDown(w, "ArrowUp", "KeyW") THEN p.speed ELSE 0)
                          + (IF KeyDown(w, "ArrowDown", "KeyS") THEN p.speed ELSE 0)]
    IN  [w EXCEPT !.player =
            [moved EXCEPT
                !.x = Max(0, Min(Px(CANVAS_WIDTH) - moved.width, moved.x)),
                !.y = Max(0, Min(Px(CANVAS_HEIGHT) - moved.height, moved.y))]]

PlayerBullet(x, y, angle) ==
    [x |-> x, y |-> y, width |-> Px(BULLET_WIDTH), height |-> Px(BULLET_HEIGHT),
     speed |-> Px(BULLET_SPEED), damage |-> 1, angle |-> angle, isEnemy |-> FALSE]

\* (variant: the level-25 pattern is tested before the power-up)
ShotPattern_LevelFirst(p, lvl) ==
    LET bulletX == p.x + p.width \div 2 - Px(BULLET_WIDTH) \div 2
        bulletY == p.y
    IN  IF lvl >= 25
        THEN [k \in 1..5 |-> PlayerBullet(bulletX, bulletY, (k - 3) * 150)]
        ELSE IF p.activePowerUp = "TRIPLE_SHOT" \/ lvl >= 15
        THEN <<PlayerBullet(bulletX, bulletY, 0),
               PlayerBullet(bulletX, bulletY, -200),
               PlayerBullet(bulletX, bulletY, 200)>>
        ELSE IF lvl >= 5
        THEN <<PlayerBullet(p.x + Px(10), bulletY, 0),
               PlayerBullet(p.x + p.width - Px(10) - Px(BULLET_WIDTH), bulletY, 0)>>
        ELSE <<PlayerBullet(bulletX, bulletY, 0)>>

\* The bullets of one shot, by power-up and level (first match wins)
ShotPattern(p, lvl) ==
    LET bulletX == p.x + p.width \div 2 - Px(BULLET_WIDTH) \div 2
        bulletY == p.y
    IN  IF p.activePowerUp = "TRIPLE_SHOT" \/ (lvl >= 15 /\ lvl < 25)
        THEN <<PlayerBullet(bulletX, bulletY, 0),
               PlayerBullet(bulletX, bulletY, -200),
               PlayerBullet(bulletX, bulletY, 200)>>
        ELSE IF lvl >= 25
        THEN [k \in 1..5 |-> PlayerBullet(bulletX, bulletY, (k - 3) * 150)]
        ELSE IF lvl >= 5
        THEN <<PlayerBullet(p.x + Px(10), bulletY, 0),
               PlayerBullet(p.x + p.width - Px(10) - Px(BULLET_WIDTH), bulletY, 0)>>
        ELSE <<PlayerBullet(bulletX, bulletY, 0)>>

\* (variant: the short interval at every level)
ShotInterval_Short(lvl) == 120

ShotInterval(lvl) == IF lvl >= 30 THEN 120 ELSE 200

Shoot(w) ==
    IF ("Space" \in w.keys \/ w.touch # NoTouch)
       /\ w.now - w.lastShot > ShotInterval(w.level)
    THEN LET shots == ShotPattern(w.player, w.level)
         IN  [w EXCEPT !.bullets = @ \o shots,
                       !.lastShot = w.now,
                       !.log.shots = Len(shots),
                       !.log.shot = shots]
    ELSE w

MoveBullet(b) ==
    LET dir == IF b.isEnemy THEN -1 ELSE 1
    IN  [b EXCEPT !.x = b.x + (MathSin(b.angle) * b.speed) \div 1000,
                  !.y = b.y - (MathCos(b.angle) * b.speed * dir) \div 1000]

BulletInField(b) ==
    /\ b.y > Px(-50)
    /\ b.y < Px(CANVAS_HEIGHT + 50)
    /\ b.x > Px(-50)
    /\ b.x < Px(CANVAS_WIDTH + 50)

UpdateBullets(w) ==
    [w EXCEPT !.bullets =
        SelectSeq([k \in 1..Len(w.bullets) |-> MoveBullet(w.bullets[k])],
                  BulletInField)]

(***************************************************************************)
(* update(): 4. bosses                                                     *)
(***************************************************************************)
EnemyBullet(x, y, width, height, speed, damage, angle) ==
    [x |-> x, y |-> y, width |-> Px(width), height |-> Px(height),
     speed |-> Px(speed), damage |-> damage, angle |-> angle, isEnemy |-> TRUE]

\* Math.atan2(tx - cx, -(ty - cy)) toward the player's centre
AngleToPlayer(p, cx, cy) ==
    MathAtan2(p.x + p.width \div 2 - cx, -(p.y + p.height \div 2 - cy))

\* (variant: the rain leaves one column empty)
BossAttack_OneColumnGap(boss, p, lvl, now, draw) ==
    LET centerX == boss.x + boss.width \div 2
        centerY == boss.y + boss.height \div 2
        main ==
            IF draw.pattern = 0
            THEN LET count == IF lvl >= 30 THEN 20 ELSE 12
                 IN  [k \in 1..count |->
                        EnemyBullet(centerX, centerY, 8, 8, 4, 1,
                                    ((k - 1) * 6283) \div count)]
            ELSE IF draw.pattern = 1
            THEN LET count == IF lvl >= 30 THEN 5 ELSE 3
                     half == count \div 2
                     a == AngleToPlayer(p, centerX, centerY)
                 IN  [k \in 1..(2 * half + 1) |->
                        EnemyBullet(centerX, centerY, 10, 10, 6, 1,
                                    a + (k - 1 - half) * 150)]
            ELSE IF draw.pattern = 2
            THEN [k \in 1..4 |->
                    EnemyBullet(centerX, centerY, 8, 8, 5, 1,
                                now + ((k - 1) * 6283) \div 4)]
            ELSE LET count == 10
                     cols == SelectSeq([k \in 1..count |-> k - 1],
                                       LAMBDA c : c # draw.gap)
                 IN  [k \in 1..Len(cols) |->
                        [x |-> Px(CANVAS_WIDTH \div count) * cols[k]
                               + Px(CANVAS_WIDTH \div count) \div 2,
                         y |-> boss.y + boss.height,
                         width |-> Px(6), height |-> Px(20), speed |-> Px(5),
                         damage |-> 1, angle |-> 0, isEnemy |-> TRUE]]
        ultimate ==
            IF lvl >= 50 /\ draw.ultimate < 100
            THEN [k \in 1..20 |->
                    [x |-> Px(CANVAS_WIDTH \div 20) * (k - 1),
                     y |-> boss.y + boss.height,
                     width |-> Px(10), height |-> Px(10), speed |-> Px(3),
                     damage |-> 2, angle |-> 0, isEnemy |-> TRUE]]
            ELSE << >>
    IN  main \o ultimate

\* The bullets of one boss attack; draw = [pattern, gap, ultimate]
BossAttack(boss, p, lvl, now, draw) ==
    LET centerX == boss.x + boss.width \div 2
        centerY == boss.y + boss.height \div 2
        main ==
            IF draw.pattern = 0
            THEN LET count == IF lvl >= 30 THEN 20 ELSE 12
                 IN  [k \in 1..count |->
                        EnemyBullet(centerX, centerY, 8, 8, 4, 1,
                                    ((k - 1) * 6283) \div count)]
            ELSE IF draw.pattern = 1
            THEN LET count == IF lvl >= 30 THEN 5 ELSE 3
                     half == count \div 2
                     a == AngleToPlayer(p, centerX, centerY)
                 IN  [k \in 1..(2 * half + 1) |->
                        EnemyBullet(centerX, centerY, 10, 10, 6, 1,
                                    a + (k - 1 - half) * 150)]
            ELSE IF draw.pattern = 2
            THEN [k \in 1..4 |->
                    EnemyBullet(centerX, centerY, 8, 8, 5, 1,
                                now + ((k - 1) * 6283) \div 4)]
            ELSE LET count == 10
                     cols == SelectSeq([k \in 1..count |-> k - 1],
                                       LAMBDA c : c # draw.gap /\ c # draw.gap + 1)
                 IN  [k \in 1..Len(cols) |->
                        [x |-> Px(CANVAS_WIDTH \div count) * cols[k]
                               + Px(CANVAS_WIDTH \div count) \div 2,
                         y |-> boss.y + boss.height,
                         width |-> Px(6), height |-> Px(20), speed |-> Px(5),
                         damage |-> 1, angle |-> 0, isEnemy |-> TRUE]]
        ultimate ==
            IF lvl >= 50 /\ draw.ultimate < 100
            THEN [k \in 1..20 |->
                    [x |-> Px(CANVAS_WIDTH \div 20) * (k - 1),
                     y |-> boss.y + boss.height,
                     width |-> Px(10), height |-> Px(10), speed |-> Px(3),
                     damage |-> 2, angle |-> 0, isEnemy |-> TRUE]]
            ELSE << >>
    IN  main \o ultimate

BossAttackInterval(lvl) == IF lvl >= 20 THEN 500 ELSE 1000

BossAttackDue(boss, lvl, now) == now - boss.attackTimer > BossAttackInterval(lvl)

\* Side-to-side movement and the slow descent to y = 50
MoveBoss(boss) ==
    LET x1 == boss.x + boss.speed
    IN  [boss EXCEPT
            !.x = x1,
            !.speed = IF x1 <= 0 \/ x1 + boss.width >= Px(CANVAS_WIDTH)
                      THEN -boss.speed ELSE boss.speed,
            !.y = IF boss.y < Px(50) THEN boss.y + Px(1) ELSE boss.y]

RECURSIVE UpdateBossesFrom(_, _, _)
\* bossesRef.current.forEach, from index j on; draws[j] is boss j's draw
UpdateBossesFrom(w, j, draws) ==
    IF j > Len(w.bosses) THEN w
    ELSE LET boss == MoveBoss(w.bosses[j])
             due == BossAttackDue(boss, w.level, w.now)
             shots == IF due
                      THEN BossAttack(boss, w.player, w.level, w.now, draws[j])
                      ELSE << >>
             w1 == [w EXCEPT
                      !.bosses[j] = IF due THEN [boss EXCEPT !.attackTimer = w.now]
                                    ELSE boss,
                      !.bullets = @ \o shots,
                      !.log.bossShots = @ + Len(shots),
                      !.log.attacks = IF due
                                      THEN Append(@, [level |-> w.level,
                                                      draw |-> draws[j],
                                                      bullets |-> shots])
                                      ELSE @]
         IN  UpdateBossesFrom(w1, j + 1, draws)

UpdateBosses(w, draws) == UpdateBossesFrom(w, 1, draws)

(***************************************************************************)
(* update(): 5. boss warning, boss entrance, regular-enemy spawner         *)
(***************************************************************************)
\* (variant: the trigger does not look at the warning flag)
StartWarning_NoFlagGuard(w) ==
    IF w.level \in BossLevels /\ Len(w.bosses) = 0
    THEN [w EXCEPT
            !.bossWarningActive = TRUE,
            !.events = Append(@, Ev("bossWarning", 0, BOSS_CONFIGS[w.level].name)),
            !.enemies = << >>,
            !.timers = Append(@, [due |-> w.now + 3000, now |-> w.now,
                                  config |-> w.level]),
            !.log.warningStarted = TRUE]
    ELSE w

\* Level is a boss level, no boss, no warning: raise the warning, clear the
\* regular enemies and schedule the spawn callback 3000 ms later.  The
\* callback closes over this frame's now and config.
StartWarning(w) ==
    IF w.level \in BossLevels /\ Len(w.bosses) = 0 /\ ~w.bossWarningActive
    THEN [w EXCEPT
            !.bossWarningActive = TRUE,
            !.events = Append(@, Ev("bossWarning", 0, BOSS_CONFIGS[w.level].name)),
            !.enemies = << >>,
            !.timers = Append(@, [due |-> w.now + 3000, now |-> w.now,
                                  config |-> w.level]),
            !.log.warningStarted = TRUE]
    ELSE w

\* Boss entrance animation: ease every boss toward y = 50
BossEntrance(w) ==
    IF Len(w.bosses) > 0 /\ w.now - w.bossEntranceTimer < 2000
    THEN [w EXCEPT
            !.bosses = [j \in 1..Len(w.bosses) |->
                          [w.bosses[j] EXCEPT
                              !.y = @ + ((Px(50) - @) * 5) \div 100]],
            !.log.isEntering = TRUE]
    ELSE w

\* (variant: the interval without its floor of 300 ms)
SpawnInterval_NoFloor(lvl) == 1500 - lvl * 120

SpawnInterval(lvl) == Max(300, 1500 - lvl * 120)

\* weighted thresholds on one draw; later thresholds override earlier ones
SpawnType(lvl, rand) ==
    LET t1 == IF lvl >= 3 /\ rand > 600 THEN "FAST" ELSE "BASIC"
        t2 == IF lvl >= 5 /\ rand > 750 THEN "RANGED" ELSE t1
    IN  IF lvl >= 7 /\ rand > 900 THEN "HEAVY" ELSE t2

\* (variant: the guard without the warning flag)
SpawnAllowed_NoWarning(w) ==
    Len(w.bosses) = 0 /\ ~w.log.isEntering

\* the spawner's guard
SpawnAllowed(w) ==
    Len(w.bosses) = 0 /\ ~w.bossWarningActive /\ ~w.log.isEntering

SpawnDue(w) == SpawnAllowed(w) /\ w.now - w.lastEnemySpawn > SpawnInterval(w.level)

\* draw = [type, x, delay], the three Math.random() draws of a spawn
SpawnEnemy(w, draw) ==
    LET w0 == [w EXCEPT !.log.spawnBosses = Len(w.bosses),
                        !.log.spawnWarning = w.bossWarningActive]
    IN  IF SpawnDue(w)
        THEN LET type == SpawnType(w.level, draw.type)
                 config == ENEMY_CONFIGS[type]
                 scaledHealth == config.health + w.level \div 2
                 e == [id |-> "rnd", type |-> type,
                       x |-> (draw.x * Px(CANVAS_WIDTH - config.width)) \div 1000,
                       y |-> -Px(config.height),
                       width |-> Px(config.width), height |-> Px(config.height),
                       speed |-> config.speed + w.level * 3,
                       health |-> scaledHealth, maxHealth |-> scaledHealth,
                       scoreValue |-> config.scoreValue, isBoss |-> FALSE,
                       attackTimer |-> w.now + draw.delay * 2]
             IN  [w0 EXCEPT
                    !.enemies = Append(@, e),
                    !.lastEnemySpawn = w.now,
                    !.log.spawned = @ + 1,
                    !.log.spawns = Append(@, [level |-> w.level,
                                              rand |-> draw.type,
                                              elapsed |-> w.now - w.lastEnemySpawn,
                                              enemy |-> e])]
        ELSE w0

(***************************************************************************)
(* update(): regular enemies advance, escapes, 6. power-ups                *)
(***************************************************************************)
RECURSIVE UpdateEnemiesFrom(_, _)
UpdateEnemiesFrom(w, k) ==
    IF k > Len(w.enemies) THEN w
    ELSE LET e == w.enemies[k]
             p == w.player
             w1 ==
                IF e.type = "RANGED"
                THEN IF e.y < Px(200)
                     THEN [w EXCEPT !.enemies[k].y = e.y + e.speed]
                     ELSE IF w.now - e.attackTimer > 2000
                     THEN [w EXCEPT
                            !.bullets = Append(@,
                                EnemyBullet(e.x + e.width \div 2, e.y + e.height,
                                            6, 6, 4, 1,
                                            AngleToPlayer(p, e.x + e.width \div 2,
                                                          e.y + e.height \div 2))),
                            !.enemies[k].attackTimer = w.now]
                     ELSE w
                ELSE [w EXCEPT !.enemies[k].y = e.y + e.speed]
         IN  UpdateEnemiesFrom(w1, k + 1)

UpdateEnemies(w) == UpdateEnemiesFrom(w, 1)

Escaped(e) == e.y > Px(CANVAS_HEIGHT)

\* (variant: the penalty is not floored at 0)
CheckEscaped_NoFloor(w) ==
    LET escaped == SelectSeq(w.enemies, Escaped)
        w0 == [w EXCEPT !.log.escapeBefore = w.enemies,
                        !.log.escapeScoreBefore = w.score]
        w1 == IF Len(escaped) > 0
              THEN LET s == w.score - 50 * Len(escaped)
                   IN  [w0 EXCEPT
                          !.score = s,
                          !.events = Append(@, Ev("score", s, "")),
                          !.enemies = SelectSeq(w.enemies, LAMBDA e : ~Escaped(e))]
              ELSE w0
    IN  [w1 EXCEPT !.log.escapeAfter = w1.enemies,
                   !.log.escapeScoreAfter = w1.score]

\* (variant: one penalty of 50 whatever the number of escaped enemies)
CheckEscaped_FlatPenalty(w) ==
    LET escaped == SelectSeq(w.enemies, Escaped)
        w0 == [w EXCEPT !.log.escapeBefore = w.enemies,
                        !.log.escapeScoreBefore = w.score]
        w1 == IF Len(escaped) > 0
              THEN LET s == Max(0, w.score - 50)
                   IN  [w0 EXCEPT
                          !.score = s,
                          !.events = Append(@, Ev("score", s, "")),
                          !.enemies = SelectSeq(w.enemies, LAMBDA e : ~Escaped(e))]
              ELSE w0
    IN  [w1 EXCEPT !.log.escapeAfter = w1.enemies,
                   !.log.escapeScoreAfter = w1.score]

\* Escaped enemies cost 50 points each, floored at 0, and are removed
CheckEscaped(w) ==
    LET escaped == SelectSeq(w.enemies, Escaped)
        w0 == [w EXCEPT !.log.escapeBefore = w.enemies,
                        !.log.escapeScoreBefore = w.score]
        w1 == IF Len(escaped) > 0
              THEN LET s == Max(0, w.score - 50 * Len(escaped))
                   IN  [w0 EXCEPT
                          !.score = s,
                          !.events = Append(@, Ev("score", s, "")),
                          !.enemies = SelectSeq(w.enemies, LAMBDA e : ~Escaped(e))]
              ELSE w0
    IN  [w1 EXCEPT !.log.escapeAfter = w1.enemies,
                   !.log.escapeScoreAfter = w1.score]

PowerUpSpawnDue(w) == w.now - w.lastPowerUpSpawn > 15000

\* draw = [type, x]
UpdatePowerUps(w, draw) ==
    LET w1 == IF PowerUpSpawnDue(w)
              THEN [w EXCEPT
                      !.powerUps = Append(@,
                          [type |-> IF draw.type > 500 THEN "TRIPLE_SHOT" ELSE "SHIELD",
                           x |-> (draw.x * Px(CANVAS_WIDTH - POWERUP_SIZE)) \div 1000,
                           y |-> -Px(POWERUP_SIZE),
                           width |-> Px(POWERUP_SIZE), height |-> Px(POWERUP_SIZE),
                           speed |-> Px(2)]),
                      !.lastPowerUpSpawn = w.now]
              ELSE w
    IN  [w1 EXCEPT !.powerUps =
            SelectSeq([k \in 1..Len(w1.powerUps) |->
                          [w1.powerUps[k] EXCEPT !.y = @ + w1.powerUps[k].speed]],
                      LAMBDA q : q.y < Px(CANVAS_HEIGHT))]

(***************************************************************************)
(* update(): 7. collisions, bullets against bosses and regular enemies     *)
(***************************************************************************)
\* What one award of the pass did: the target (boss or regular enemy, its
\* index and its health before the hit) and the refs before (w) and after (v)
Award(w, v, isBoss, index, e) ==
    [boss |-> isBoss, index |-> index,
     scoreValue |-> e.scoreValue, targetHealth |-> e.health,
     bossesPresent |-> Len(w.bosses),
     scoreBefore |-> w.score, scoreAfter |-> v.score,
     levelBefore |-> w.level, levelAfter |-> v.level,
     healthBefore |-> w.health, healthAfter |-> v.health,
     healedBefore |-> w.lastLevelHealed, healedAfter |-> v.lastLevelHealed,
     events |-> SubSeq(v.events, Len(w.events) + 1, Len(v.events))]

\* One (bullet i, boss j) pair of the pass
HitBoss(w, i, j) ==
    LET b == w.bullets[i]
        e == w.bosses[j]
    IN  IF Overlaps(b, e)
        THEN LET h == e.health - b.damage
                 w1 == createExplosion(
                          [w EXCEPT !.bosses[j].health = h,
                                    !.bullets[i].y = Px(-100),
                                    !.log.struck = Append(@,
                                        [bullet |-> i, y |-> b.y,
                                         boss |-> TRUE, target |-> j])],
                          "#fff", 3)
             IN  IF h <= 0
                 THEN LET color == IF w.level \in BossLevels
                                   THEN BOSS_CONFIGS[w.level].color
                                   ELSE BOSS_CONFIGS[50].color
                          w2 == createExplosion(w1, color, 50)
                          w3 == [w2 EXCEPT
                              !.score = @ + e.scoreValue,
                              !.events = Append(@, Ev("score", w.score + e.scoreValue, "")),
                              !.bosses[j].id = "dead",
                              !.log.bossKills = @ + 1]
                      IN  [w3 EXCEPT !.log.awards =
                              Append(@, Award(w, w3, TRUE, j, e))]
                 ELSE w1
        ELSE w

\* (variant: the heal is not capped at the maximum health)
LevelUpCheck_NoCap(w) ==
    IF Len(w.bosses) = 0 /\ w.score >= w.level * 2000
    THEN LET nextLevel == w.level + 1
             heal == nextLevel % 2 = 0 /\ nextLevel > w.lastLevelHealed
             w1 == IF heal
                   THEN [w EXCEPT
                           !.health = @ + 1,
                           !.events = Append(@, Ev("health", w.health + 1, "")),
                           !.log.heals = @ + 1]
                   ELSE w
             w2 == IF heal THEN [w1 EXCEPT !.lastLevelHealed = nextLevel] ELSE w1
             w3 == [w2 EXCEPT
                      !.level = nextLevel,
                      !.events = Append(@, Ev("level", nextLevel, "")),
                      !.log.levelUps = @ + 1]
         IN  IF nextLevel = 5
             THEN [w3 EXCEPT !.events = Append(@, Ev("achievement", 0, "level_up"))]
             ELSE w3
    ELSE w

\* (variant: the level is recomputed from the score at every kill)
LevelUpCheck_FromScore(w) ==
    IF Len(w.bosses) = 0 /\ w.level # w.score \div 2000 + 1
    THEN LET nextLevel == w.score \div 2000 + 1
             heal == nextLevel % 2 = 0 /\ nextLevel > w.lastLevelHealed
             w1 == IF heal /\ w.health < PLAYER_MAX_HEALTH
                   THEN [w EXCEPT
                           !.health = @ + 1,
                           !.events = Append(@, Ev("health", w.health + 1, "")),
                           !.log.heals = @ + 1]
                   ELSE w
             w2 == IF heal THEN [w1 EXCEPT !.lastLevelHealed = nextLevel] ELSE w1
             w3 == [w2 EXCEPT
                      !.level = nextLevel,
                      !.events = Append(@, Ev("level", nextLevel, "")),
                      !.log.levelUps = @ + 1]
         IN  IF nextLevel = 5
             THEN [w3 EXCEPT !.events = Append(@, Ev("achievement", 0, "level_up"))]
             ELSE w3
    ELSE w

\* (variant: the threshold must be exceeded, not reached)
LevelUpCheck_StrictThreshold(w) ==
    IF Len(w.bosses) = 0 /\ w.score > w.level * 2000
    THEN LET nextLevel == w.level + 1
             heal == nextLevel % 2 = 0 /\ nextLevel > w.lastLevelHealed
             w1 == IF heal /\ w.health < PLAYER_MAX_HEALTH
                   THEN [w EXCEPT
                           !.health = @ + 1,
                           !.events = Append(@, Ev("health", w.health + 1, "")),
                           !.log.heals = @ + 1]
                   ELSE w
             w2 == IF heal THEN [w1 EXCEPT !.lastLevelHealed = nextLevel] ELSE w1
             w3 == [w2 EXCEPT
                      !.level = nextLevel,
                      !.events = Append(@, Ev("level", nextLevel, "")),
                      !.log.levelUps = @ + 1]
         IN  IF nextLevel = 5
             THEN [w3 EXCEPT !.events = Append(@, Ev("achievement", 0, "level_up"))]
             ELSE w3
    ELSE w

\* (variant: the check also runs while a boss is present)
LevelUpCheck_IgnoreBoss(w) ==
    IF w.score >= w.level * 2000
    THEN LET nextLevel == w.level + 1
             heal == nextLevel % 2 = 0 /\ nextLevel > w.lastLevelHealed
             w1 == IF heal /\ w.health < PLAYER_MAX_HEALTH
                   THEN [w EXCEPT
                           !.health = @ + 1,
                           !.events = Append(@, Ev("health", w.health + 1, "")),
                           !.log.heals = @ + 1]
                   ELSE w
             w2 == IF heal THEN [w1 EXCEPT !.lastLevelHealed = nextLevel] ELSE w1
             w3 == [w2 EXCEPT
                      !.level = nextLevel,
                      !.events = Append(@, Ev("level", nextLevel, "")),
                      !.log.levelUps = @ + 1]
         IN  IF nextLevel = 5
             THEN [w3 EXCEPT !.events = Append(@, Ev("achievement", 0, "level_up"))]
             ELSE w3
    ELSE w

\* Level up check of a kill (only if no boss is active): one level at a time,
\* healing at every even level not healed yet
LevelUpCheck(w) ==
    IF Len(w.bosses) = 0 /\ w.score >= w.level * 2000
    THEN LET nextLevel == w.level + 1
             heal == nextLevel % 2 = 0 /\ nextLevel > w.lastLevelHealed
             w1 == IF heal /\ w.health < PLAYER_MAX_HEALTH
                   THEN [w EXCEPT
                           !.health = @ + 1,
                           !.events = Append(@, Ev("health", w.health + 1, "")),
                           !.log.heals = @ + 1]
                   ELSE w
             w2 == IF heal THEN [w1 EXCEPT !.lastLevelHealed = nextLevel] ELSE w1
             w3 == [w2 EXCEPT
                      !.level = nextLevel,
                      !.events = Append(@, Ev("level", nextLevel, "")),
                      !.log.levelUps = @ + 1]
         IN  IF nextLevel = 5
             THEN [w3 EXCEPT !.events = Append(@, Ev("achievement", 0, "level_up"))]
             ELSE w3
    ELSE w

\* (variant: every kill is worth 100 points)
HitEnemy_FlatAward(w, i, k) ==
    LET b == w.bullets[i]
        e == w.enemies[k]
    IN  IF Overlaps(b, e)
        THEN LET h == e.health - b.damage
                 w1 == [w EXCEPT !.enemies[k].health = h,
                                 !.bullets[i].y = Px(-100),
                                 !.log.struck = Append(@,
                                     [bullet |-> i, y |-> b.y,
                                      boss |-> FALSE, target |-> k])]
             IN  IF h <= 0
                 THEN LET w2 == createExplosion(w1, ENEMY_CONFIGS[e.type].color, 15)
                          s == w.score + 100
                          w3 == [w2 EXCEPT
                                   !.score = s,
                                   !.events = @ \o
                                      (<<Ev("score", s, ""),
                                         Ev("achievement", 0, "first_blood")>>
                                       \o (IF s >= 10000
                                           THEN <<Ev("achievement", 0, "ace")>>
                                           ELSE << >>)),
                                   !.log.kills = @ + 1]
                          w4 == LevelUpCheck(w3)
                      IN  [w4 EXCEPT !.log.awards =
                              Append(@, Award(w, w4, FALSE, k, e))]
                 ELSE w1
        ELSE w

\* One (bullet i, enemy k) pair of the pass
HitEnemy(w, i, k) ==
    LET b == w.bullets[i]
        e == w.enemies[k]
    IN  IF Overlaps(b, e)
        THEN LET h == e.health - b.damage
                 w1 == [w EXCEPT !.enemies[k].health = h,
                                 !.bullets[i].y = Px(-100),
                                 !.log.struck = Append(@,
                                     [bullet |-> i, y |-> b.y,
                                      boss |-> FALSE, target |-> k])]
             IN  IF h <= 0
                 THEN LET w2 == createExplosion(w1, ENEMY_CONFIGS[e.type].color, 15)
                          s == w.score + e.scoreValue
                          w3 == [w2 EXCEPT
                                   !.score = s,
                                   !.events = @ \o
                                      (<<Ev("score", s, ""),
                                         Ev("achievement", 0, "first_blood")>>
                                       \o (IF s >= 10000
                                           THEN <<Ev("achievement", 0, "ace")>>
                                           ELSE << >>)),
                                   !.log.kills = @ + 1]
                          w4 == LevelUpCheck(w3)
                      IN  [w4 EXCEPT !.log.awards =
                              Append(@, Award(w, w4, FALSE, k, e))]
                 ELSE w1
        ELSE w

RECURSIVE HitBossesFrom(_, _, _)
HitBossesFrom(w, i, j) ==
    IF j > Len(w.bosses) THEN w ELSE HitBossesFrom(HitBoss(w, i, j), i, j + 1)

RECURSIVE HitEnemiesFrom(_, _, _)
HitEnemiesFrom(w, i, k) ==
    IF k > Len(w.enemies) THEN w ELSE HitEnemiesFrom(HitEnemy(w, i, k), i, k + 1)

RECURSIVE BulletPassFrom(_, _)
\* bulletsRef.current.forEach: each bullet against every boss, then every enemy
BulletPassFrom(w, i) ==
    IF i > Len(w.bullets) THEN w
    ELSE BulletPassFrom(HitEnemiesFrom(HitBossesFrom(w, i, 1), i, 1), i + 1)

\* (variant: every removal of a dead boss raises the level)
Cleanup_EveryBoss(w) ==
    LET w1 == [w EXCEPT !.enemies = SelectSeq(w.enemies, LAMBDA e : e.health > 0)]
        deadBosses == SelectSeq(w1.bosses, LAMBDA e : e.id = "dead")
    IN  IF Len(deadBosses) > 0
        THEN LET left == SelectSeq(w1.bosses, LAMBDA e : e.id # "dead")
                 w2 == [w1 EXCEPT !.bosses = left]
             IN  IF Len(left) >= 0
                 THEN [w2 EXCEPT
                         !.level = @ + 1,
                         !.events = Append(@, Ev("level", w1.level + 1, "")),
                         !.log.bossDefeat = TRUE]
                 ELSE w2
        ELSE w1

\* (variant: the defeat of the last boss unlocks "boss_slayer")
Cleanup_BossSlayer(w) ==
    LET w1 == [w EXCEPT !.enemies = SelectSeq(w.enemies, LAMBDA e : e.health > 0)]
        deadBosses == SelectSeq(w1.bosses, LAMBDA e : e.id = "dead")
    IN  IF Len(deadBosses) > 0
        THEN LET left == SelectSeq(w1.bosses, LAMBDA e : e.id # "dead")
                 w2 == [w1 EXCEPT !.bosses = left]
             IN  IF Len(left) = 0
                 THEN [w2 EXCEPT
                         !.level = @ + 1,
                         !.events = @ \o <<Ev("level", w1.level + 1, ""),
                                          Ev("achievement", 0, "boss_slayer")>>,
                         !.log.bossDefeat = TRUE]
                 ELSE w2
        ELSE w1

\* enemies with health <= 0 are dropped; dead bosses are dropped and the
\* removal of the last one raises the level
Cleanup(w) ==
    LET w1 == [w EXCEPT !.enemies = SelectSeq(w.enemies, LAMBDA e : e.health > 0)]
        deadBosses == SelectSeq(w1.bosses, LAMBDA e : e.id = "dead")
    IN  IF Len(deadBosses) > 0
        THEN LET left == SelectSeq(w1.bosses, LAMBDA e : e.id # "dead")
                 w2 == [w1 EXCEPT !.bosses = left]
             IN  IF Len(left) = 0
                 THEN [w2 EXCEPT
                         !.level = @ + 1,
                         !.events = Append(@, Ev("level", w1.level + 1, "")),
                         !.log.bossDefeat = TRUE]
                 ELSE w2
        ELSE w1

BulletCollisions(w) ==
    LET w1 == BulletPassFrom(w, 1)
    IN  Cleanup([w1 EXCEPT !.log.bossesHit = w1.bosses])

(***************************************************************************)
(* update(): player against enemy bullets, bosses and regular enemies      *)
(***************************************************************************)
\* The common part of a hit: the shield absorbs it or health drops by one;
\* the player becomes invincible
TakeHit(w, src) ==
    LET w1 == IF w.player.shieldActive
              THEN LET w0 == [w EXCEPT !.player.shieldActive = FALSE]
                   IN  IF src = "enemy"
                       THEN [w0 EXCEPT !.events =
                               Append(@, Ev("achievement", 0, "shield_master"))]
                       ELSE w0
              ELSE [w EXCEPT !.health = @ - 1,
                             !.events = Append(@, Ev("health", w.health - 1, ""))]
        w2 == [w1 EXCEPT
                 !.player.invincible = TRUE,
                 !.player.invincibleTimer = w.now,
                 !.log.hits = Append(@, [src |-> src,
                                         absorbed |-> w.player.shieldActive,
                                         health |-> w1.health])]
    IN  createExplosion(w2, "#ff0000", 20)

RECURSIVE PlayerVsBulletsFrom(_, _)
PlayerVsBulletsFrom(w, i) ==
    IF i > Len(w.bullets) THEN w
    ELSE LET b == w.bullets[i]
             w1 == IF b.isEnemy /\ Overlaps(w.player, b)
                   THEN LET h == TakeHit(w, "bullet")
                        IN  [h EXCEPT !.bullets[i].y = Px(CANVAS_HEIGHT + 100)]
                   ELSE w
         IN  PlayerVsBulletsFrom(w1, i + 1)

RECURSIVE PlayerVsBossesFrom_Destroys(_, _)
\* (variant: the contact destroys the boss as it destroys a regular enemy)
PlayerVsBossesFrom_Destroys(w, j) ==
    IF j > Len(w.bosses) THEN w
    ELSE PlayerVsBossesFrom_Destroys(
            IF Overlaps(w.player, w.bosses[j])
            THEN [TakeHit(w, "boss") EXCEPT !.bosses[j].health = 0]
            ELSE w,
            j + 1)

RECURSIVE PlayerVsBossesFrom(_, _)
PlayerVsBossesFrom(w, j) ==
    IF j > Len(w.bosses) THEN w
    ELSE PlayerVsBossesFrom(
            IF Overlaps(w.player, w.bosses[j]) THEN TakeHit(w, "boss") ELSE w,
            j + 1)

RECURSIVE PlayerVsEnemiesFrom(_, _)
PlayerVsEnemiesFrom(w, k) ==
    IF k > Len(w.enemies) THEN w
    ELSE PlayerVsEnemiesFrom(
            IF Overlaps(w.player, w.enemies[k])
            THEN [TakeHit(w, "enemy") EXCEPT !.enemies[k].health = 0]
            ELSE w,
            k + 1)

\* The invincible flag is tested once, before the three loops
PlayerCollisions(w) ==
    LET w1 == IF ~w.player.invincible
              THEN PlayerVsEnemiesFrom(
                      PlayerVsBossesFrom(PlayerVsBulletsFrom(w, 1), 1), 1)
              ELSE w
    IN  [w1 EXCEPT !.log.shieldAfterHits = w1.player.shieldActive]

RECURSIVE PickUpFrom_KeepsTimer(_, _)
\* (variant: a pickup while a power-up is active does not restart its timer)
PickUpFrom_KeepsTimer(w, k) ==
    IF k > Len(w.powerUps) THEN w
    ELSE LET q == w.powerUps[k]
             w1 == IF Overlaps(w.player, q)
                   THEN LET w0 == IF q.type = "SHIELD"
                                  THEN [w EXCEPT !.player.shieldActive = TRUE]
                                  ELSE [w EXCEPT
                                          !.player.activePowerUp = q.type,
                                          !.player.powerUpTimer =
                                              IF w.player.activePowerUp = NoPowerUp
                                              THEN w.now ELSE @,
                                          !.events = Append(@,
                                              Ev("achievement", 0, "triple_threat"))]
                        IN  createExplosion(
                               [w0 EXCEPT !.powerUps[k].y = Px(CANVAS_HEIGHT + 100),
                                          !.log.pickups = @ + 1,
                                          !.log.picked = Append(@, q.type)],
                               "#00ff00", 10)
                   ELSE w
         IN  PickUpFrom_KeepsTimer(w1, k + 1)

RECURSIVE PickUpFrom(_, _)
PickUpFrom(w, k) ==
    IF k > Len(w.powerUps) THEN w
    ELSE LET q == w.powerUps[k]
             w1 == IF Overlaps(w.player, q)
                   THEN LET w0 == IF q.type = "SHIELD"
                                  THEN [w EXCEPT !.player.shieldActive = TRUE]
                                  ELSE [w EXCEPT
                                          !.player.activePowerUp = q.type,
                                          !.player.powerUpTimer = w.now,
                                          !.events = Append(@,
                                              Ev("achievement", 0, "triple_threat"))]
                        IN  createExplosion(
                               [w0 EXCEPT !.powerUps[k].y = Px(CANVAS_HEIGHT + 100),
                                          !.log.pickups = @ + 1,
                                          !.log.picked = Append(@, q.type)],
                               "#00ff00", 10)
                   ELSE w
         IN  PickUpFrom(w1, k + 1)

PickUpPowerUps(w) == PickUpFrom(w, 1)

(***************************************************************************)
(* update(): 8. timers, 9. particles                                       *)
(***************************************************************************)
\* (variant: the shield ends with the power-up window)
UpdateTimers_ShieldExpires(w) ==
    LET p == w.player
        p1 == IF p.invincible /\ w.now - p.invincibleTimer > 2000
              THEN [p EXCEPT !.invincible = FALSE] ELSE p
        p2 == IF w.now - p1.powerUpTimer > POWERUP_DURATION
              THEN [p1 EXCEPT !.activePowerUp = NoPowerUp,
                              !.shieldActive = FALSE]
              ELSE p1
    IN  [w EXCEPT !.player = p2]

\* (variant: the invincibility window is 1000 ms)
UpdateTimers_ShortWindow(w) ==
    LET p == w.player
        p1 == IF p.invincible /\ w.now - p.invincibleTimer > 1000
              THEN [p EXCEPT !.invincible = FALSE] ELSE p
        p2 == IF p1.activePowerUp # NoPowerUp
                 /\ w.now - p1.powerUpTimer > POWERUP_DURATION
              THEN [p1 EXCEPT !.activePowerUp = NoPowerUp] ELSE p1
    IN  [w EXCEPT !.player = p2]

UpdateTimers(w) ==
    LET p == w.player
        p1 == IF p.invincible /\ w.now - p.invincibleTimer > 2000
              THEN [p EXCEPT !.invincible = FALSE] ELSE p
        p2 == IF p1.activePowerUp # NoPowerUp
                 /\ w.now - p1.powerUpTimer > POWERUP_DURATION
              THEN [p1 EXCEPT !.activePowerUp = NoPowerUp] ELSE p1
    IN  [w EXCEPT !.player = p2]

\* life -= 0.02 (2 hundredths); particles with life <= 0 are dropped
UpdateParticles(w) ==
    [w EXCEPT !.particles =
        SelectSeq([k \in 1..Len(w.particles) |->
                      [w.particles[k] EXCEPT !.life = @ - 2]],
                  LAMBDA q : q.life > 0)]

(***************************************************************************)
(* The Math.random() draws of a frame, taken only where the frame uses them *)
(***************************************************************************)
NoBossDraw == [pattern |-> 0, gap |-> 0, ultimate |-> 500]

\* pattern = floor(random*4), gap = floor(random*8), ultimate = random
BossDraws(lvl) ==
    {[pattern |-> pt, gap |-> g, ultimate |-> u] :
        pt \in 0..3, g \in {0, 4}, u \in {50, 500}}
    \ {dr \in [pattern : 0..3, gap : {0, 4}, ultimate : {50, 500}] :
         (dr.pattern # 3 /\ dr.gap # 0) \/ (lvl < 50 /\ dr.ultimate # 500)}

\* One draw per boss whose attack is due in this frame
BossDrawSeqs(w) ==
    {f \in [1..Len(w.bosses) -> BossDraws(w.level) \cup {NoBossDraw}] :
        \A j \in 1..Len(w.bosses) :
            IF BossAttackDue(w.bosses[j], w.level, w.now)
            THEN f[j] \in BossDraws(w.level)
            ELSE f[j] = NoBossDraw}

NoSpawnDraw == [type |-> 0, x |-> 0, delay |-> 0]

\* type draw, x draw (475/1000 of the range puts a BASIC enemy above the
\* player's start column), first-shot delay draw.  The type draw 0.8, which
\* separates RANGED from HEAVY, is enumerated at level 12.
SpawnDraws(lvl) ==
    {[type |-> t, x |-> x, delay |-> 500] :
        t \in RandChoices \cup (IF lvl = 12 THEN {800} ELSE {}), x \in {475}}

NoPowerUpDraw == [type |-> 0, x |-> 0]

PowerUpDraws == {[type |-> t, x |-> 500] : t \in {0, 700}}

(***************************************************************************)
(* update(dt): the whole frame                                             *)
(***************************************************************************)
\* phases up to the bullets
FrameHead(w) == UpdateBullets(Shoot(MovePlayer(w)))

\* bosses, warning, entrance
FrameBosses(w, bossDraws) == BossEntrance(StartWarning(UpdateBosses(w, bossDraws)))

\* spawner, enemies, escapes
FrameEnemies(w, spawnDraw) == CheckEscaped(UpdateEnemies(SpawnEnemy(w, spawnDraw)))

\* power-ups, collisions, timers, particles
FrameTail(w, powerUpDraw) ==
    UpdateParticles(UpdateTimers(PickUpPowerUps(PlayerCollisions(
        BulletCollisions(UpdatePowerUps(w, powerUpDraw))))))

\* the refs as one record, for a frame at time now
World(now) ==
    [now |-> now, keys |-> keys, touch |-> touch,
     score |-> score, level |-> level, health |-> health,
     lastEnemySpawn |-> lastEnemySpawn, lastPowerUpSpawn |-> lastPowerUpSpawn,
     lastShot |-> lastShot, lastLevelHealed |-> lastLevelHealed,
     bossWarningActive |-> bossWarningActive,
     bossEntranceTimer |-> bossEntranceTimer,
     player |-> player, enemies |-> enemies, bullets |-> bullets,
     powerUps |-> powerUps, particles |-> particles, bosses |-> bosses,
     timers |-> timers, events |-> << >>,
     log |-> [EmptyLog EXCEPT !.tick = TRUE]]

\* (variant: only a health below 0 ends the run)
ReportsDeath_BelowZero(evs) ==
    \E k \in 1..Len(evs) : evs[k].type = "health" /\ evs[k].value < 0

\* handleHealthUpdate: a reported health <= 0 ends the run
ReportsDeath(evs) ==
    \E k \in 1..Len(evs) : evs[k].type = "health" /\ evs[k].value <= 0

\* useEffect on gameState PAUSED, GAMEOVER or START: clear the entities
ClearedEntities(w) ==
    [w EXCEPT !.enemies = << >>, !.bullets = << >>,
              !.powerUps = << >>, !.bosses = << >>]

\* handleScoreUpdate as the loop holds it: the callback compares the new
\* score with the bestScore of the render it was created in
handleScoreUpdate(best, captured, newScore) ==
    IF newScore > captured THEN newScore ELSE best

RECURSIVE ReportScores(_, _, _, _)
\* the score events of evs from index n on, handled in order
ReportScores(evs, n, best, captured) ==
    IF n > Len(evs) THEN best
    ELSE ReportScores(evs, n + 1,
                      IF evs[n].type = "score"
                      THEN handleScoreUpdate(best, captured, evs[n].value)
                      ELSE best,
                      captured)

\* the refs after the frame; a death reported by the frame makes the host
\* switch to GAMEOVER, whose effects run before the next frame
Commit(w) ==
    LET dead == ReportsDeath(w.events)
        f == IF dead THEN ClearedEntities(w) ELSE w
    IN  /\ gameState' = IF dead THEN "GAMEOVER" ELSE gameState
        /\ bestScore' = ReportScores(w.events, 1, bestScore, capturedBest)
        /\ capturedBest' = IF dead THEN bestScore' ELSE capturedBest
        /\ prevGameState' = IF dead THEN "GAMEOVER" ELSE prevGameState
        /\ score' = f.score
        /\ level' = f.level
        /\ health' = f.health
        /\ lastEnemySpawn' = f.lastEnemySpawn
        /\ lastPowerUpSpawn' = f.lastPowerUpSpawn
        /\ lastShot' = f.lastShot
        /\ lastLevelHealed' = f.lastLevelHealed
        /\ bossWarningActive' = f.bossWarningActive
        /\ bossEntranceTimer' = f.bossEntranceTimer
        /\ player' = f.player
        /\ enemies' = f.enemies
        /\ bullets' = f.bullets
        /\ powerUps' = f.powerUps
        /\ particles' = f.particles
        /\ bosses' = f.bosses
        /\ timers' = f.timers
        /\ events' = f.events
        /\ log' = f.log
        /\ clock' = f.now

\* One animation frame: loop -> update(16).  A pending timeout whose time
\* has come runs before the frame.
Tick ==
    /\ gameState = "PLAYING"
    /\ ticks < MaxTicks
    /\ \E d \in DtChoices :
        /\ \A k \in 1..Len(timers) : clock + d < timers[k].due
        /\ LET w3 == FrameHead(World(clock + d))
           IN  \E bossDraws \in BossDrawSeqs(w3) :
                 LET w5 == FrameBosses(w3, bossDraws)
                 IN  \E spawnDraw \in (IF SpawnDue(w5) THEN SpawnDraws(w5.level)
                                       ELSE {NoSpawnDraw}) :
                       LET w8 == FrameEnemies(w5, spawnDraw)
                       IN  \E powerUpDraw \in (IF PowerUpSpawnDue(w8)
                                               THEN PowerUpDraws
                                               ELSE {NoPowerUpDraw}) :
                             Commit(FrameTail(w8, powerUpDraw))
    /\ ticks' = ticks + 1
    /\ UNCHANGED <<keys, touch>>

(***************************************************************************)
(* The deferred boss spawn (the setTimeout callback of update)             *)
(***************************************************************************)
\* (variant: one boss per ten levels from level 20 on)
BossCount_PerTen(lvl) == IF lvl >= 20 THEN lvl \div 10 ELSE 1

BossCount(lvl) == IF lvl = 20 THEN 2 ELSE IF lvl = 30 THEN 3 ELSE 1

EscortCount(lvl) ==
    IF lvl = 20 THEN 2 ELSE IF lvl = 30 THEN 3 ELSE IF lvl = 50 THEN 5 ELSE 0

\* t = [due, now, config]: now and config are the values of the frame that
\* scheduled the callback; the level is read when the callback runs
SpawnBosses(t) ==
    LET config == BOSS_CONFIGS[t.config]
        bossCount == BossCount(level)
        escortCount == EscortCount(level)
        eConfig == ENEMY_CONFIGS["HEAVY"]
    IN  /\ bosses' = bosses \o
            [k \in 1..bossCount |->
                [id |-> "boss", type |-> "BASIC",
                 x |-> (Px(CANVAS_WIDTH) \div (bossCount + 1)) * k
                       - Px(config.width) \div 2,
                 y |-> -Px(config.height),
                 width |-> Px(config.width), height |-> Px(config.height),
                 speed |-> config.speed * (IF (k - 1) % 2 = 0 THEN 1 ELSE -1),
                 health |-> config.health, maxHealth |-> config.health,
                 scoreValue |-> config.scoreValue, isBoss |-> TRUE,
                 attackTimer |-> t.now]]
        /\ enemies' = enemies \o
            [k \in 1..escortCount |->
                [id |-> "escort", type |-> "HEAVY",
                 x |-> (Px(CANVAS_WIDTH) \div (escortCount + 1)) * k
                       - Px(eConfig.width) \div 2,
                 y |-> -Px(eConfig.height) - Px(100),
                 width |-> Px(eConfig.width), height |-> Px(eConfig.height),
                 speed |-> eConfig.speed,
                 health |-> eConfig.health * 2, maxHealth |-> eConfig.health * 2,
                 scoreValue |-> eConfig.scoreValue, isBoss |-> FALSE,
                 attackTimer |-> t.now + 1000]]
        /\ bossEntranceTimer' = t.now
        /\ bossWarningActive' = FALSE
        /\ events' = <<Ev("bossWarning", 0, "")>>

\* The oldest pending timeout runs once its 3000 ms have elapsed, whatever
\* the game state is
TimerFire ==
    /\ Len(timers) > 0
    /\ clock' = Max(clock, Head(timers).due)
    /\ timers' = Tail(timers)
    /\ SpawnBosses(Head(timers))
    /\ log' = EmptyLog
    /\ UNCHANGED <<gameState, bestScore, capturedBest, prevGameState, score, level, health, lastEnemySpawn,
                   lastPowerUpSpawn, lastShot, lastLevelHealed, player, bullets,
                   powerUps, particles, keys, touch, ticks>>

(***************************************************************************)
(* Host: game-state transitions of App and the effects of GameCanvas       *)
(***************************************************************************)
\* (variant: the reset leaves the shield and the warning flag as they are)
ResetRun_KeepsFlags ==
    /\ score' = 0
    /\ level' = 1
    /\ health' = PLAYER_MAX_HEALTH
    /\ lastLevelHealed' = 1
    /\ enemies' = << >>
    /\ bullets' = << >>
    /\ powerUps' = << >>
    /\ particles' = << >>
    /\ bosses' = << >>
    /\ bossWarningActive' = bossWarningActive
    /\ player' = [player EXCEPT
                    !.x = Px(CANVAS_WIDTH) \div 2 - Px(PLAYER_SIZE) \div 2,
                    !.y = Px(CANVAS_HEIGHT) - Px(100),
                    !.health = PLAYER_MAX_HEALTH,
                    !.invincible = FALSE,
                    !.activePowerUp = NoPowerUp]
    /\ events' = <<Ev("score", 0, ""), Ev("level", 1, ""),
                   Ev("health", PLAYER_MAX_HEALTH, "")>>

\* useEffect [gameState]: entering PLAYING from another state resets the run
ResetRun ==
    /\ score' = 0
    /\ level' = 1
    /\ health' = PLAYER_MAX_HEALTH
    /\ lastLevelHealed' = 1
    /\ enemies' = << >>
    /\ bullets' = << >>
    /\ powerUps' = << >>
    /\ particles' = << >>
    /\ bosses' = << >>
    /\ bossWarningActive' = FALSE
    /\ player' = [player EXCEPT
                    !.x = Px(CANVAS_WIDTH) \div 2 - Px(PLAYER_SIZE) \div 2,
                    !.y = Px(CANVAS_HEIGHT) - Px(100),
                    !.health = PLAYER_MAX_HEALTH,
                    !.shieldActive = FALSE,
                    !.invincible = FALSE,
                    !.activePowerUp = NoPowerUp]
    /\ events' = <<Ev("score", 0, ""), Ev("level", 1, ""),
                   Ev("health", PLAYER_MAX_HEALTH, "")>>

\* useEffect [gameState]: PAUSED, GAMEOVER and START clear the entities
ClearEntities ==
    /\ enemies' = << >>
    /\ bullets' = << >>
    /\ powerUps' = << >>
    /\ bosses' = << >>

\* The game state becomes PLAYING: both effects run
EnterPlaying ==
    /\ gameState' = "PLAYING"
    /\ prevGameState' = "PLAYING"
    /\ bestScore' = IF prevGameState # "PLAYING"
                    THEN handleScoreUpdate(bestScore, bestScore, 0)
                    ELSE bestScore
    /\ capturedBest' = bestScore'
    /\ IF prevGameState # "PLAYING"
       THEN ResetRun
       ELSE UNCHANGED <<score, level, health, lastLevelHealed, enemies, bullets,
                        powerUps, particles, bosses, bossWarningActive, player,
                        events>>
    /\ log' = EmptyLog
    /\ UNCHANGED <<lastEnemySpawn, lastPowerUpSpawn, lastShot, bossEntranceTimer,
                   keys, touch, clock, timers, ticks>>

\* (variant: leaving PLAYING cancels the pending timeouts)
LeavePlaying_ClearsTimers(st) ==
    /\ gameState' = st
    /\ prevGameState' = st
    /\ bestScore' = bestScore
    /\ capturedBest' = bestScore
    /\ ClearEntities
    /\ events' = << >>
    /\ log' = EmptyLog
    /\ timers' = << >>
    /\ UNCHANGED <<score, level, health, lastEnemySpawn, lastPowerUpSpawn, lastShot,
                   lastLevelHealed, bossWarningActive, bossEntranceTimer, player,
                   particles, keys, touch, clock, ticks>>

\* The game state becomes st, one of PAUSED, GAMEOVER, START: both effects run
LeavePlaying(st) ==
    /\ gameState' = st
    /\ prevGameState' = st
    /\ bestScore' = bestScore
    /\ capturedBest' = bestScore
    /\ ClearEntities
    /\ events' = << >>
    /\ log' = EmptyLog
    /\ UNCHANGED <<score, level, health, lastEnemySpawn, lastPowerUpSpawn, lastShot,
                   lastLevelHealed, bossWarningActive, bossEntranceTimer, player,
                   particles, keys, touch, clock, timers, ticks>>

\* App.startGame, from the start screen or the game-over screen
StartGame ==
    /\ gameState \in {"START", "GAMEOVER"}
    /\ EnterPlaying

\* App.togglePause
TogglePause ==
    \/ /\ gameState = "PLAYING"
       /\ LeavePlaying("PAUSED")
    \/ /\ gameState = "PAUSED"
       /\ EnterPlaying

\* The menu buttons of the pause and game-over screens
BackToStart ==
    /\ gameState \in {"PAUSED", "GAMEOVER"}
    /\ LeavePlaying("START")

InputUnchanged ==
    UNCHANGED <<gameState, bestScore, capturedBest, prevGameState, score, level,
                health, lastEnemySpawn,
                lastPowerUpSpawn, lastShot, lastLevelHealed, bossWarningActive,
                bossEntranceTimer, player, enemies, bullets, powerUps, particles,
                bosses, clock, timers, events, log, ticks>>

KeyChoices == {"Space"}

\* a pointer position in canvas coordinates
TouchChoices == {[x |-> Px(400), y |-> Px(700)]}

handleKeyDown ==
    /\ \E c \in KeyChoices : c \notin keys /\ keys' = keys \cup {c}
    /\ UNCHANGED touch
    /\ InputUnchanged

handleKeyUp ==
    /\ \E c \in keys : keys' = keys \ {c}
    /\ UNCHANGED touch
    /\ InputUnchanged

handleTouch ==
    /\ gameState = "PLAYING"
    /\ \E pt \in TouchChoices : pt # touch /\ touch' = pt
    /\ UNCHANGED keys
    /\ InputUnchanged

handleTouchEnd ==
    /\ touch # NoTouch
    /\ touch' = NoTouch
    /\ UNCHANGED keys
    /\ InputUnchanged

(***************************************************************************)
(* Initial states: a run in progress.  Every scenario is a state play      *)
(* reaches: an enemy spawned at level l has y = -height + k*(speed + 0.3 l) *)
(* after k frames and any x the spawner can draw; a player bullet is on    *)
(* the column it was fired from, 15 px higher each frame; the player can   *)
(* be steered to any position of the field; health, shield and score are   *)
(* what hits, pick-ups, kills and escapes have left.                       *)
(***************************************************************************)
InitClock == 100000

\* A regular enemy spawned at level lvl, k frames ago, with hp health left
EnemyAt(type, lvl, x, k, hp) ==
    LET config == ENEMY_CONFIGS[type]
        speed == config.speed + lvl * 3
    IN  [id |-> "rnd", type |-> type, x |-> x,
         y |-> -Px(config.height) + k * speed,
         width |-> Px(config.width), height |-> Px(config.height),
         speed |-> speed, health |-> hp,
         maxHealth |-> config.health + lvl \div 2,
         scoreValue |-> config.scoreValue, isBoss |-> FALSE,
         attackTimer |-> InitClock - 500]

\* A player bullet fired straight up m frames ago from a ship at (px, py)
BulletAt(px, py, m) ==
    PlayerBullet(px + Px(PLAYER_SIZE) \div 2 - Px(BULLET_WIDTH) \div 2,
                 py - m * Px(BULLET_SPEED), 0)

\* The level-5 boss, k frames after its spawn, with hp health left
BossAt(k, hp) ==
    LET config == BOSS_CONFIGS[5]
    IN  [id |-> "boss", type |-> "BASIC",
         x |-> Px(CANVAS_WIDTH) \div 2 - Px(config.width) \div 2 + k * config.speed,
         y |-> Min(Px(50), -Px(config.height) + k * Px(1)),
         width |-> Px(config.width), height |-> Px(config.height),
         speed |-> config.speed, health |-> hp, maxHealth |-> config.health,
         scoreValue |-> config.scoreValue, isBoss |-> TRUE,
         attackTimer |-> InitClock - 500]

\* Boss k of count bosses of the level-lvl encounter, settled at y = 50,
\* n frames of sideways movement after its spawn, with hp health left
BossOf(lvl, k, count, n, hp) ==
    LET config == BOSS_CONFIGS[lvl]
        dir == IF (k - 1) % 2 = 0 THEN 1 ELSE -1
    IN  [id |-> "boss", type |-> "BASIC",
         x |-> (Px(CANVAS_WIDTH) \div (count + 1)) * k - Px(config.width) \div 2
               + n * config.speed * dir,
         y |-> Px(50),
         width |-> Px(config.width), height |-> Px(config.height),
         speed |-> config.speed * dir, health |-> hp, maxHealth |-> config.health,
         scoreValue |-> config.scoreValue, isBoss |-> TRUE,
         attackTimer |-> InitClock - 100]

\* Escort k of count, n frames after its spawn, with hp health left
EscortAt(k, count, n, hp) ==
    LET eConfig == ENEMY_CONFIGS["HEAVY"]
    IN  [id |-> "escort", type |-> "HEAVY",
         x |-> (Px(CANVAS_WIDTH) \div (count + 1)) * k - Px(eConfig.width) \div 2,
         y |-> -Px(eConfig.height) - Px(100) + n * eConfig.speed,
         width |-> Px(eConfig.width), height |-> Px(eConfig.height),
         speed |-> eConfig.speed, health |-> hp, maxHealth |-> eConfig.health * 2,
         scoreValue |-> eConfig.scoreValue, isBoss |-> FALSE,
         attackTimer |-> InitClock - 500]

StartX == Px(CANVAS_WIDTH) \div 2 - Px(PLAYER_SIZE) \div 2
StartY == Px(CANVAS_HEIGHT) - Px(100)

\* The fields every scenario starts from
BaseScenario ==
    [level |-> 1, score |-> 0, lastLevelHealed |-> 1,
     px |-> StartX, py |-> StartY,
     enemies |-> << >>, bullets |-> << >>, bosses |-> << >>,
     powerUps |-> << >>,
     lastEnemySpawn |-> InitClock - 1000,
     lastPowerUpSpawn |-> InitClock - 5000,
     lastShot |-> InitClock - 100,
     bossEntranceTimer |-> 0,
     activePowerUp |-> NoPowerUp,
     powerUpTimer |-> InitClock - 1000,
     keys |-> {},
     ticks |-> 0]

Scenario(name) ==
    LET base == BaseScenario
    IN  CASE name = "kill" ->
               \* a bullet about to kill the enemy that brings the score to 2000;
               \* a SHIELD power-up about to reach the ship
               [base EXCEPT
                  !.score = 1900,
                  !.enemies = <<EnemyAt("BASIC", 1, Px(380), 121, 1)>>,
                  !.bullets = <<BulletAt(StartX, StartY, 30)>>,
                  !.powerUps = <<[type |-> "SHIELD", x |-> Px(380),
                                  y |-> -Px(POWERUP_SIZE) + 400 * Px(2),
                                  width |-> Px(POWERUP_SIZE),
                                  height |-> Px(POWERUP_SIZE), speed |-> Px(2)]>>,
                  !.lastPowerUpSpawn = InitClock - 14000]
          [] name = "toBoss" ->
               \* the kill that brings level 4 to level 5
               [base EXCEPT
                  !.level = 4, !.score = 7900, !.lastLevelHealed = 4,
                  !.enemies = <<EnemyAt("BASIC", 4, Px(380), 92, 1)>>,
                  !.bullets = <<BulletAt(StartX, StartY, 30)>>]
          [] name = "boss" ->
               \* the level-5 boss with one health left and a bullet below it
               [base EXCEPT
                  !.level = 5, !.score = 8000, !.lastLevelHealed = 4,
                  !.px = Px(550),
                  !.bosses = <<BossAt(150, 1)>>,
                  !.bullets = <<BulletAt(Px(550), StartY, 43)>>,
                  !.bossEntranceTimer = InitClock - 6000]
          [] name = "contact" ->
               \* one enemy about to touch the ship, one about to escape
               [base EXCEPT
                  !.level = 2, !.score = 2050, !.lastLevelHealed = 2,
                  !.enemies = <<EnemyAt("BASIC", 1, Px(100), 335, 1),
                                EnemyAt("BASIC", 2, Px(380), 258, 2)>>]
          [] name = "contact2" ->
               \* two enemies about to touch the ship in the same frame, two
               \* about to escape in the same frame, fewer than 100 points
               [base EXCEPT
                  !.level = 3, !.score = 50, !.lastLevelHealed = 2,
                  !.enemies = <<EnemyAt("BASIC", 1, Px(100), 335, 1),
                                EnemyAt("BASIC", 2, Px(600), 303, 2),
                                EnemyAt("BASIC", 2, Px(380), 258, 1),
                                EnemyAt("BASIC", 3, Px(360), 235, 2)>>]
          [] name = "ranged" ->
               \* after the first boss: a RANGED enemy holding its height and
               \* its bullet, fired level with the ship, about to reach it;
               \* two enemies about to escape in the same frame
               [base EXCEPT
                  !.level = 6, !.score = 13000, !.lastLevelHealed = 4,
                  !.px = Px(200), !.py = 2005,
                  !.enemies = <<EnemyAt("RANGED", 6, Px(500), 62, 6),
                                EnemyAt("BASIC", 6, Px(100), 218, 4),
                                EnemyAt("FAST", 6, Px(600), 127, 4)>>,
                  !.bullets = <<EnemyBullet(Px(500) + Px(45) \div 2 - 68 * Px(4),
                                            2030 + Px(45), 6, 6, 4, 1, -1571)>>]
          [] name = "first" ->
               \* the first kill of a run: one BASIC enemy, one bullet
               [base EXCEPT
                  !.enemies = <<EnemyAt("BASIC", 1, Px(380), 121, 1)>>,
                  !.bullets = <<BulletAt(StartX, StartY, 30)>>]
          [] name = "double" ->
               \* the two bullets of a double shot under one enemy with one
               \* health left, 100 points below the level threshold
               [base EXCEPT
                  !.level = 6, !.score = 11900, !.lastLevelHealed = 4,
                  !.enemies = <<EnemyAt("BASIC", 6, Px(380), 79, 1)>>,
                  !.bullets =
                     <<PlayerBullet(StartX + Px(10), StartY - 30 * Px(BULLET_SPEED), 0),
                       PlayerBullet(StartX + Px(PLAYER_SIZE) - Px(10) - Px(BULLET_WIDTH),
                                    StartY - 30 * Px(BULLET_SPEED), 0)>>]
          [] name = "twoBosses" ->
               \* the level-20 encounter: two bosses, the first with one health
               \* left and a bullet below it; an escort with one health left
               \* and a bullet below it; the last frame of the bound
               [base EXCEPT
                  !.level = 20, !.score = 100000, !.lastLevelHealed = 20,
                  !.px = Px(200),
                  !.bosses = <<BossOf(20, 1, 2, 0, 1), BossOf(20, 2, 2, 0, 800)>>,
                  !.enemies = <<EscortAt(2, 2, 307, 1)>>,
                  !.bullets = <<BulletAt(Px(200), StartY, 36),
                                BulletAt(Px(507), StartY, 29)>>,
                  !.bossEntranceTimer = InitClock - 6000,
                  !.ticks = MaxTicks - 1]
          [] name = "follow" ->
               \* a FAST enemy about to touch the ship and an older, slower
               \* BASIC enemy that reaches it one frame later
               [base EXCEPT
                  !.level = 3, !.score = 4500, !.lastLevelHealed = 2,
                  !.enemies = <<EnemyAt("BASIC", 1, Px(360), 284, 1),
                                EnemyAt("FAST", 3, Px(390), 125, 1)>>]
          [] name = "ram" ->
               \* the ship steered upward into the level-5 boss
               [base EXCEPT
                  !.level = 5, !.score = 8000, !.lastLevelHealed = 4,
                  !.py = Px(50) + Px(BOSS_CONFIGS[5].height) + Px(6),
                  !.bosses = <<BossOf(5, 1, 1, 0, BOSS_CONFIGS[5].health)>>,
                  !.bossEntranceTimer = InitClock - 6000,
                  !.keys = {"ArrowUp"},
                  !.ticks = MaxTicks - 2]
          [] name = "triple" ->
               \* TRIPLE_SHOT a second before its end; a SHIELD power-up about
               \* to reach the ship and a TRIPLE_SHOT one frame behind it
               [base EXCEPT
                  !.level = 2, !.score = 2100, !.lastLevelHealed = 2,
                  !.activePowerUp = "TRIPLE_SHOT",
                  !.powerUpTimer = InitClock - 9000,
                  !.powerUps = <<[type |-> "SHIELD", x |-> Px(370),
                                  y |-> -Px(POWERUP_SIZE) + 400 * Px(2),
                                  width |-> Px(POWERUP_SIZE),
                                  height |-> Px(POWERUP_SIZE), speed |-> Px(2)],
                                 [type |-> "TRIPLE_SHOT", x |-> Px(400),
                                  y |-> -Px(POWERUP_SIZE) + 399 * Px(2),
                                  width |-> Px(POWERUP_SIZE),
                                  height |-> Px(POWERUP_SIZE), speed |-> Px(2)]>>]
          [] name = "heavy" ->
               \* level 12, 100 ms after the last spawn
               [base EXCEPT
                  !.level = 12, !.score = 22100, !.lastLevelHealed = 12,
                  !.lastEnemySpawn = InitClock - 100]
          [] name = "boss30" ->
               \* the last of the three level-30 bosses, one frame
               [base EXCEPT
                  !.level = 30, !.score = 58100, !.lastLevelHealed = 30,
                  !.bosses = <<BossOf(30, 2, 3, 0, BOSS_CONFIGS[30].health)>>,
                  !.bossEntranceTimer = InitClock - 6000,
                  !.ticks = MaxTicks - 1]
          [] name = "boss50" ->
               \* the last of the five level-50 bosses, one frame
               [base EXCEPT
                  !.level = 50, !.score = 98100, !.lastLevelHealed = 50,
                  !.bosses = <<BossOf(50, 3, 5, 0, BOSS_CONFIGS[50].health)>>,
                  !.bossEntranceTimer = InitClock - 6000,
                  !.ticks = MaxTicks - 1]
          [] name = "entry" ->
               \* the level-20 encounter ten frames after its spawn: the
               \* bosses and escorts still above the field, a player bullet
               \* about to reach the first boss's lower edge, one frame
               [base EXCEPT
                  !.level = 20, !.score = 38100, !.lastLevelHealed = 20,
                  !.px = Px(240),
                  !.bosses = <<[BossOf(20, 1, 2, 10, BOSS_CONFIGS[20].health)
                                  EXCEPT !.y = -Px(BOSS_CONFIGS[20].height) + 10 * Px(1)],
                                [BossOf(20, 2, 2, 10, BOSS_CONFIGS[20].health)
                                  EXCEPT !.y = -Px(BOSS_CONFIGS[20].height) + 10 * Px(1)]>>,
                  !.enemies = <<EscortAt(1, 2, 10, 12), EscortAt(2, 2, 10, 12)>>,
                  !.bullets = <<BulletAt(Px(240), StartY, 52)>>,
                  !.bossEntranceTimer = InitClock - 3160,
                  !.ticks = MaxTicks - 1]
          [] name = "leap" ->
               \* level 29 after the level-20 encounter (two bosses of 50000
               \* points defeated at 38100, eight kills since): two enemies,
               \* each with a bullet about to kill it, one frame
               [base EXCEPT
                  !.level = 29, !.score = 139300, !.lastLevelHealed = 28,
                  !.enemies = <<EnemyAt("BASIC", 29, Px(390), 31, 1),
                                EnemyAt("HEAVY", 29, Px(320), 11, 1)>>,
                  !.bullets = <<BulletAt(StartX - Px(35), StartY, 45),
                                BulletAt(StartX, StartY, 30)>>,
                  !.ticks = MaxTicks - 1]
          [] name = "surge" ->
               \* after the level-10 boss (15000 points): two enemies, each
               \* with a bullet about to kill it, one frame
               [base EXCEPT
                  !.level = 11, !.score = 33000, !.lastLevelHealed = 10,
                  !.enemies = <<EnemyAt("BASIC", 11, Px(390), 59, 1),
                                EnemyAt("FAST", 11, Px(335), 30, 1)>>,
                  !.bullets = <<BulletAt(StartX - Px(35), StartY, 35),
                                BulletAt(StartX, StartY, 30)>>,
                  !.ticks = MaxTicks - 1]

Scenarios == {"kill", "toBoss", "boss", "contact", "contact2", "ranged",
              "first", "double", "twoBosses"}

\* The refs of scenario sc, with hp health and the shield up or not
InitWith(sc, hp, shield) ==
    /\ gameState = "PLAYING"
    /\ bestScore = sc.score
    /\ capturedBest = 0
    /\ prevGameState = "PLAYING"
    /\ score = sc.score
    /\ level = sc.level
    /\ health = hp
    /\ lastEnemySpawn = sc.lastEnemySpawn
    /\ lastPowerUpSpawn = sc.lastPowerUpSpawn
    /\ lastShot = sc.lastShot
    /\ lastLevelHealed = sc.lastLevelHealed
    /\ bossWarningActive = FALSE
    /\ bossEntranceTimer = sc.bossEntranceTimer
    /\ player = [id |-> "player", x |-> sc.px, y |-> sc.py,
                 width |-> Px(PLAYER_SIZE), height |-> Px(PLAYER_SIZE),
                 speed |-> Px(PLAYER_SPEED),
                 health |-> PLAYER_MAX_HEALTH,
                 maxHealth |-> PLAYER_MAX_HEALTH,
                 shieldActive |-> shield, invincible |-> FALSE,
                 invincibleTimer |-> 0, powerUpTimer |-> sc.powerUpTimer,
                 activePowerUp |-> sc.activePowerUp]
    /\ enemies = sc.enemies
    /\ bullets = sc.bullets
    /\ powerUps = sc.powerUps
    /\ particles = << >>
    /\ bosses = sc.bosses
    /\ keys = sc.keys
    /\ touch = NoTouch
    /\ clock = InitClock
    /\ timers = << >>
    /\ events = << >>
    /\ log = EmptyLog
    /\ ticks = sc.ticks

Init ==
    \E name \in Scenarios, hp \in 1..PLAYER_MAX_HEALTH, shield \in BOOLEAN :
        InitWith(Scenario(name), hp, shield)

Next ==
    \/ Tick
    \/ TimerFire
    \/ StartGame
    \/ TogglePause
    \/ BackToStart
    \/ handleKeyDown
    \/ handleKeyUp

Spec == Init /\ [][Next]_vars

(***************************************************************************)
(* Contacts, pickups, the spawner above level 7 and boss attacks at the    *)
(* late boss levels: the same steps from further mid-run states            *)
(***************************************************************************)
DuelScenarios == {"toBoss", "ranged", "follow", "ram", "triple", "heavy",
                  "boss30", "boss50", "surge", "entry", "leap"}

InitDuel ==
    \E name \in DuelScenarios, hp \in 1..PLAYER_MAX_HEALTH, shield \in BOOLEAN :
        InitWith(Scenario(name), hp, shield)

SpecDuel == InitDuel /\ [][Next]_vars

(***************************************************************************)
(* The run that reaches level 5, with the browser running every timeout    *)
(* whose time has come                                                     *)
(***************************************************************************)
InitWarn ==
    \E hp \in 1..PLAYER_MAX_HEALTH, shield \in BOOLEAN :
        InitWith(Scenario("toBoss"), hp, shield)

SpecWarn == InitWarn /\ [][Next]_vars /\ WF_vars(TimerFire)

(***************************************************************************)
(* The late game: a run that has just reached level lvl, fire key held,   *)
(* 150 ms after the last shot, with or without the TRIPLE_SHOT power-up.   *)
(* At a boss level the first frame starts the warning; it is the last      *)
(* frame of the bound, so that the spawn callback is the end of the run.   *)
(***************************************************************************)
LateCases ==
    {<<4, NoPowerUp>>, <<4, "TRIPLE_SHOT">>, <<5, NoPowerUp>>, <<15, NoPowerUp>>,
     <<20, NoPowerUp>>, <<24, NoPowerUp>>, <<25, NoPowerUp>>,
     <<25, "TRIPLE_SHOT">>, <<29, NoPowerUp>>, <<30, NoPowerUp>>,
     <<50, NoPowerUp>>}

Arsenal(lvl, powerUp) ==
    [BaseScenario EXCEPT
        !.level = lvl,
        !.score = (lvl - 1) * 2000 + 100,
        !.lastLevelHealed = lvl - (lvl % 2),
        !.lastEnemySpawn = InitClock - 100,
        !.lastShot = InitClock - 150,
        !.activePowerUp = powerUp,
        !.keys = {"Space"},
        !.ticks = IF lvl \in BossLevels THEN MaxTicks - 1 ELSE 0]

InitLate ==
    \E c \in LateCases : InitWith(Arsenal(c[1], c[2]), PLAYER_MAX_HEALTH, FALSE)

NextLate ==
    \/ Tick
    \/ TimerFire
    \/ StartGame
    \/ TogglePause
    \/ BackToStart
    \/ handleKeyDown
    \/ handleKeyUp
    \/ handleTouch
    \/ handleTouchEnd

SpecLate == InitLate /\ [][NextLate]_vars

(***************************************************************************)
(* Properties                                                              *)
(***************************************************************************)
\* the step into the next state is an update() call
IsTick == ticks' = ticks + 1

\* the step enters PLAYING from another state (the run is reset)
IsReset == gameState # "PLAYING" /\ gameState' = "PLAYING"

\* C1: player health never drops below 0, whatever overlaps the player in
\* one frame.
C1_HealthNonNegative == health >= 0

\* C2: player health never exceeds maxHealth (3); the level-up heal adds 1
\* only when health is below the maximum.
C2_HealthAtMostMax ==
    /\ health <= PLAYER_MAX_HEALTH
    /\ log.heals <= 1

\* a level-up to an even level found the player at full health: no heal
C2_Witness ==
    /\ log.tick
    /\ log.levelUps = 1
    /\ level % 2 = 0
    /\ lastLevelHealed = level
    /\ log.heals = 0
    /\ log.hits = << >>
    /\ health = PLAYER_MAX_HEALTH

\* C3: the score is never negative; within a run it increases only in a
\* frame with a regular-enemy or boss kill and decreases only in a frame with
\* escaped enemies.
C3_Score ==
    /\ score >= 0
    /\ [][/\ score' >= 0
          /\ score' > score =>
                IsTick /\ log'.kills + log'.bossKills > 0
          /\ score' < score =>
                \/ IsReset
                \/ IsTick /\ Len(log'.escapeAfter) < Len(log'.escapeBefore)]_vars

\* two enemies escaped with 50 points left: the score stops at 0
C3_Witness ==
    /\ log.tick
    /\ Len(log.escapeBefore) - Len(log.escapeAfter) = 2
    /\ log.escapeScoreBefore = 50
    /\ log.kills = 0
    /\ score = 0

\* C4: within a run the level never decreases from one step to the next and
\* changes only by the kill-driven check or by the boss-defeat increment.
C4_LevelMonotone ==
    [][~IsReset =>
          /\ level' >= level
          /\ level' # level =>
                /\ IsTick
                /\ log'.levelUps > 0 \/ log'.bossDefeat
                /\ level' = level + log'.levelUps
                            + (IF log'.bossDefeat THEN 1 ELSE 0)]_vars

\* the last boss was removed and the level went from 5 to 6
C4_Witness ==
    /\ log.tick
    /\ log.bossDefeat
    /\ log.levelUps = 0
    /\ level = 6

\* C5: shield active and player not invincible when a frame's collision
\* resolution finds a qualifying hit: afterwards the shield is off and health
\* is what it was before the frame.
C5_ShieldInvariant ==
    [][(IsTick /\ player.shieldActive /\ ~player.invincible
        /\ Len(log'.hits) > 0)
       => (~log'.shieldAfterHits /\ health' = health)]_vars

\* C6: after a hit that reduced health, no further qualifying collision
\* within 2000 ms, in the same frame or a later one, reduces health again.
C6_InvincibilityWindow ==
    [][IsTick =>
          /\ Cardinality({k \in DOMAIN log'.hits : ~log'.hits[k].absorbed}) <= 1
          /\ (player.invincible /\ clock' - player.invincibleTimer <= 2000)
                => log'.hits = << >>]_vars

\* C7: in a frame where N >= 1 regular enemies are below the field, the
\* escape check lowers the score by exactly min(score, 50 N), once, and
\* removes exactly those N enemies.
C7_EscapePenalty ==
    log.tick =>
        LET before == log.escapeBefore
            N == Cardinality({k \in DOMAIN before : before[k].y > Px(CANVAS_HEIGHT)})
        IN  /\ log.escapeScoreAfter =
                  log.escapeScoreBefore - Min(log.escapeScoreBefore, 50 * N)
            /\ log.escapeAfter =
                  SelectSeq(before, LAMBDA e : ~(e.y > Px(CANVAS_HEIGHT)))
            /\ Len(log.escapeAfter) = Len(before) - N
            /\ Len(SelectSeq(events, LAMBDA ev :
                       ev.type = "score" /\ ev.value = log.escapeScoreAfter
                       /\ ev.value <= log.escapeScoreBefore))
                  >= (IF N >= 1 THEN 1 ELSE 0)

\* two enemies escaped in one frame with enough score: exactly 100 points lost
C7_Witness ==
    /\ log.tick
    /\ Len(log.escapeBefore) - Len(log.escapeAfter) = 2
    /\ log.escapeScoreBefore = 13000
    /\ log.escapeScoreAfter = 12900

\* C8: the spawner pushes no regular enemy in a frame in which a warning is
\* active, bosses are entering or a boss is present.
C8_NoSpawnDuringBoss ==
    [][(IsTick /\ (bossWarningActive \/ Len(bosses) > 0
                   \/ log'.warningStarted \/ log'.isEntering))
       => log'.spawned = 0]_vars

\* a boss was present when the spawner ran, the spawn interval had long
\* elapsed, and nothing was spawned
C8_Witness ==
    /\ log.tick
    /\ log.spawnBosses > 0
    /\ clock - lastEnemySpawn > 1500
    /\ log.spawned = 0

\* C9: the bosses of a warning appear exactly 3000 ms after the warning
\* began; during the whole interval the warning flag is set and no boss is
\* present.
C9_WarningInterval ==
    [][/\ Len(bosses') > Len(bosses) =>
            Len(timers) > 0 /\ clock' = Head(timers).now + 3000
       /\ Len(timers') > 0 => bossWarningActive' /\ Len(bosses') = 0]_vars

\* C10: leaving PLAYING empties enemies, bullets, power-ups and bosses,
\* returns the boss director to IDLE and discards a pending warning: no boss
\* or escort appears while the game is not PLAYING, nor later without a
\* warning of the current run (an IDLE director is one that spawns nothing
\* until a new warning starts).
C10_Cancellation ==
    [][/\ (gameState = "PLAYING" /\ gameState' # "PLAYING") =>
            /\ enemies' = << >> /\ bullets' = << >>
            /\ powerUps' = << >> /\ bosses' = << >>
       /\ gameState' # "PLAYING" => bosses' = << >> /\ enemies' = << >>
       /\ Len(bosses') > Len(bosses) =>
            gameState = "PLAYING" /\ bossWarningActive]_vars

\* C11: after the bosses of a warning have spawned, every frame of the next
\* 2000 ms is an entering frame: the entering flag is set and each boss's y
\* moves toward 50 by 0.05 of the remaining distance.
C11_Entering ==
    [][(IsTick /\ events = <<Ev("bossWarning", 0, "")>> /\ Len(bosses) > 0
        /\ clock' - clock < 2000)
       => log'.isEntering]_vars

\* C12: the warning flag and a non-empty boss collection never hold
\* together, and no warning starts while the warning flag is set or a boss is
\* present.
C12_OneEncounter ==
    /\ [](~(bossWarningActive /\ Len(bosses) > 0))
    /\ [][(IsTick /\ log'.warningStarted)
           => (~bossWarningActive /\ Len(bosses) = 0
               /\ Len(timers') = Len(timers) + 1)]_vars

\* a frame at a boss level with the warning pending: no second warning
C12_Witness ==
    /\ log.tick
    /\ level \in BossLevels
    /\ bossWarningActive
    /\ Len(bosses) = 0
    /\ ~log.warningStarted
    /\ Len(timers) = 1

\* the angles of the bullets of the last shot
ShotAngles(sh) == {sh[k].angle : k \in DOMAIN sh}

\* C13: the pattern of a shot, first match wins: TRIPLE_SHOT or level in
\* [15, 25): 3 bullets at angles 0, -0.2, +0.2; else level >= 25: 5 bullets
\* at -0.3, -0.15, 0, 0.15, 0.3; else level >= 5: 2 bullets at angle 0; else
\* 1 bullet at angle 0.  Every bullet has damage 1 and is a player bullet.
C13_ShotPattern ==
    [][(IsTick /\ log'.shots > 0) =>
          LET sh == log'.shot
              triple == player.activePowerUp = "TRIPLE_SHOT"
                        \/ (level >= 15 /\ level < 25)
          IN  /\ Len(sh) = log'.shots
              /\ \A k \in DOMAIN sh : sh[k].damage = 1 /\ ~sh[k].isEnemy
              /\ IF triple
                 THEN Len(sh) = 3 /\ ShotAngles(sh) = {0, -200, 200}
                 ELSE IF level >= 25
                 THEN Len(sh) = 5 /\ ShotAngles(sh) = {-300, -150, 0, 150, 300}
                 ELSE IF level >= 5
                 THEN Len(sh) = 2 /\ ShotAngles(sh) = {0}
                 ELSE Len(sh) = 1 /\ ShotAngles(sh) = {0}]_vars

\* a shot with TRIPLE_SHOT active at level 25: three bullets
C13_Witness ==
    /\ log.tick
    /\ level = 25
    /\ player.activePowerUp = "TRIPLE_SHOT"
    /\ log.shots = 3
    /\ ShotAngles(log.shot) = {0, -200, 200}

\* C14: a frame emits a shot only if the fire input (Space or an active
\* pointer) is asserted and more than 200 ms (120 ms from level 30 on) have
\* elapsed since the previous shot; the shot restarts the gate.
C14_FireGate ==
    [][IsTick =>
          IF log'.shots > 0
          THEN /\ "Space" \in keys \/ touch # NoTouch
               /\ clock' - lastShot > (IF level >= 30 THEN 120 ELSE 200)
               /\ lastShot' = clock'
          ELSE lastShot' = lastShot]_vars

\* a shot at level 30, 166 ms after the previous one
C14_Witness ==
    /\ log.tick
    /\ level = 30
    /\ log.shots > 0
    /\ lastShot = clock
    /\ clock = InitClock + 16

\* the host callbacks of an award include the achievement id
Unlocks(a, id) ==
    \E n \in DOMAIN a.events :
        a.events[n].type = "achievement" /\ a.events[n].id = id

\* C15: a bullet hit that brings a regular enemy's health to <= 0 adds
\* exactly that enemy's scoreValue to the score and unlocks "first_blood";
\* at level 1 with score 0, one BASIC enemy of health 1 hit by one bullet
\* gives score 100 and leaves the level at 1.
C15_KillAward ==
    /\ [](\A n \in DOMAIN log.awards :
            LET a == log.awards[n]
            IN  (~a.boss /\ a.targetHealth > 0) =>
                   /\ a.scoreAfter = a.scoreBefore + a.scoreValue
                   /\ Unlocks(a, "first_blood"))
    /\ [][(IsTick /\ level = 1 /\ score = 0 /\ Len(enemies) = 1
            /\ enemies[1].type = "BASIC" /\ enemies[1].health = 1
            /\ Len(log'.awards) = 1)
           => (score' = 100 /\ level' = 1)]_vars

\* the first kill of a run: score 100, level 1, "first_blood" reported
C15_Witness ==
    /\ log.tick
    /\ Len(log.awards) = 1
    /\ log.awards[1].scoreBefore = 0
    /\ score = 100
    /\ level = 1
    /\ \E n \in DOMAIN events :
          events[n].type = "achievement" /\ events[n].id = "first_blood"

\* C16: in one frame's collision pass every regular enemy and every boss is
\* awarded at most once, at the hit where its health first becomes <= 0.
C16_NoDoubleAward ==
    \A n, m \in DOMAIN log.awards :
        /\ log.awards[n].targetHealth > 0
        /\ (n # m) =>
              ~(/\ log.awards[n].boss = log.awards[m].boss
                /\ log.awards[n].index = log.awards[m].index)

\* C17: on a regular-enemy kill with no boss present the level rises by one
\* when the score after the award is >= level * 2000; if the new level is
\* even and above the last healed level, health becomes
\* min(maxHealth, health + 1) and the last healed level becomes the new level.
C17_KillLevelUp ==
    \A n \in DOMAIN log.awards :
        LET a == log.awards[n]
            up == a.scoreAfter >= a.levelBefore * 2000
            nl == a.levelBefore + 1
        IN  (~a.boss /\ a.bossesPresent = 0) =>
               /\ a.levelAfter = (IF up THEN nl ELSE a.levelBefore)
               /\ IF up /\ nl % 2 = 0 /\ nl > a.healedBefore
                  THEN /\ a.healthAfter = Min(PLAYER_MAX_HEALTH, a.healthBefore + 1)
                       /\ a.healedAfter = nl
                  ELSE /\ a.healthAfter = a.healthBefore
                       /\ a.healedAfter = a.healedBefore

\* the kill that takes level 1 to level 2 heals one point
C17_Witness ==
    /\ log.tick
    /\ Len(log.awards) = 1
    /\ log.awards[1].levelBefore = 1
    /\ log.awards[1].levelAfter = 2
    /\ log.awards[1].scoreAfter = 2000
    /\ log.awards[1].healthAfter = log.awards[1].healthBefore + 1
    /\ log.awards[1].healedAfter = 2

\* C18: while a boss is present, a regular-enemy or escort kill changes the
\* score and leaves level, health and the last healed level unchanged.
C18_NoLevelUpDuringBoss ==
    \A n \in DOMAIN log.awards :
        LET a == log.awards[n]
        IN  (~a.boss /\ a.bossesPresent > 0) =>
               /\ a.scoreAfter = a.scoreBefore + a.scoreValue
               /\ a.levelAfter = a.levelBefore
               /\ a.healthAfter = a.healthBefore
               /\ a.healedAfter = a.healedBefore

\* an escort killed beside two bosses, with the score above the threshold
C18_Witness ==
    /\ log.tick
    /\ \E n \in DOMAIN log.awards :
          /\ ~log.awards[n].boss
          /\ log.awards[n].bossesPresent = 2
          /\ log.awards[n].scoreValue = 500
          /\ log.awards[n].scoreAfter >= log.awards[n].levelBefore * 2000
    /\ level = 20

\* C19: in a frame that starts with a boss present the level is unchanged
\* if a boss remains after it, and rises by exactly 1, with a level event,
\* if the last boss is removed in it.
C19_BossDefeat ==
    [][(IsTick /\ Len(bosses) > 0) =>
          /\ level' = level + (IF log'.bossDefeat THEN 1 ELSE 0)
          /\ gameState' = "PLAYING" => (log'.bossDefeat <=> Len(bosses') = 0)
          /\ log'.bossDefeat =>
                \E n \in DOMAIN events' :
                    events'[n].type = "level" /\ events'[n].value = level + 1]_vars

\* one of two bosses was removed, the other remains: the level stays at 20
C19_Witness ==
    /\ log.tick
    /\ gameState = "PLAYING"
    /\ log.bossKills >= 1
    /\ Len(bosses) = 1
    /\ ~log.bossDefeat
    /\ level = 20

\* the escorts among es: HEAVY enemies with their health doubled to 12
Escorts(es) ==
    SelectSeq(es, LAMBDA e : e.type = "HEAVY" /\ e.health = 12 /\ e.maxHealth = 12)

\* C20: the end of a warning spawns 2 bosses at level 20, 3 at level 30 and
\* 1 otherwise, and 2 escorts at level 20, 3 at level 30, 5 at level 50 and
\* none otherwise; a warning started at level 5 ends with exactly 1 boss and
\* no escort present.
C20_SpawnCounts ==
    [][(Len(timers') < Len(timers)) =>
          LET added == SubSeq(enemies', Len(enemies) + 1, Len(enemies'))
          IN  /\ Len(bosses') - Len(bosses) =
                    (IF level = 20 THEN 2 ELSE IF level = 30 THEN 3 ELSE 1)
              /\ Len(added) =
                    (IF level = 20 THEN 2 ELSE IF level = 30 THEN 3
                     ELSE IF level = 50 THEN 5 ELSE 0)
              /\ Escorts(added) = added
              /\ (level = 5 /\ Head(timers).config = 5 /\ bossWarningActive)
                    => (Len(bosses') = 1 /\ Escorts(enemies') = << >>)]_vars

\* the level-50 warning has ended: one boss and five escorts
C20_Witness ==
    /\ level = 50
    /\ gameState = "PLAYING"
    /\ events = <<Ev("bossWarning", 0, "")>>
    /\ Len(bosses) = 1
    /\ Len(Escorts(enemies)) = 5

\* a host callback of the given type and string argument is among evs
Emitted(evs, type, id) ==
    \E n \in DOMAIN evs : evs[n].type = type /\ evs[n].id = id

\* C21: a frame that starts at a boss level with no boss and no warning
\* starts the warning and reports the boss name of the level; the regular
\* enemies are empty at the end of that frame and of every frame until the
\* bosses of the warning spawn.
C21_WarningTrigger ==
    [][IsTick =>
          /\ (level \in BossLevels /\ Len(bosses) = 0 /\ ~bossWarningActive) =>
                /\ log'.warningStarted
                /\ Emitted(events', "bossWarning", BOSS_CONFIGS[level].name)
                /\ enemies' = << >>
          /\ Len(timers') > 0 => enemies' = << >>]_vars

\* C24: a hit that brings health to 0 or below reports that health and the
\* game state becomes GAMEOVER; the game state never becomes GAMEOVER unless
\* a reported health is <= 0.
C24_GameOver ==
    [][/\ IsTick =>
             \A n \in DOMAIN log'.hits :
                 (~log'.hits[n].absorbed /\ log'.hits[n].health <= 0) =>
                     /\ gameState' = "GAMEOVER"
                     /\ \E k \in DOMAIN events' :
                           /\ events'[k].type = "health"
                           /\ events'[k].value = log'.hits[n].health
       /\ (gameState # "GAMEOVER" /\ gameState' = "GAMEOVER") =>
             /\ IsTick
             /\ \E k \in DOMAIN events' :
                   events'[k].type = "health" /\ events'[k].value <= 0]_vars

\* the hit that takes the last health point ended the run
C24_Witness ==
    /\ gameState = "GAMEOVER"
    /\ log.tick
    /\ Len(log.hits) = 1
    /\ health = 0
    /\ Emitted(events, "health", "")

\* C25: the hit of a frame at time t sets the invincible flag; the flag
\* stays set after every frame with now - t <= 2000 and is cleared by the
\* first frame with now - t > 2000.
C25_InvincibilityExpiry ==
    [][IsTick =>
          /\ Len(log'.hits) > 0 =>
                player'.invincible /\ player'.invincibleTimer = clock'
          /\ player.invincible =>
                /\ player'.invincibleTimer = player.invincibleTimer
                /\ player'.invincible = (clock' - player.invincibleTimer <= 2000)]_vars

\* a hit of this run, more than 2000 ms ago: the flag is cleared
C25_Witness ==
    /\ log.tick
    /\ gameState = "PLAYING"
    /\ player.invincibleTimer > InitClock
    /\ clock - player.invincibleTimer > 2000
    /\ ~player.invincible

C22_ContactDestroys ==
    (log.tick /\ gameState = "PLAYING") =>
        \A k \in DOMAIN enemies :
            Overlaps(player, enemies[k]) => enemies[k].health <= 0

\* C23: while the game is PLAYING the bosses a frame leaves are the bosses
\* of its bullet pass whose health is above 0, unchanged: a boss is removed
\* only with health <= 0, and contact with the ship neither removes it nor
\* changes its health.
C23_BossRemoval ==
    [][(IsTick /\ gameState' = "PLAYING") =>
          /\ Len(log'.bossesHit) = Len(bosses)
          /\ bosses' = SelectSeq(log'.bossesHit, LAMBDA e : e.health > 0)]_vars

\* the ship ran into a boss, which is still there with the health the
\* bullet pass left it
C23_Witness ==
    /\ log.tick
    /\ gameState = "PLAYING"
    /\ \E n \in DOMAIN log.hits : log.hits[n].src = "boss"
    /\ Len(bosses) = 1
    /\ Overlaps(player, bosses[1])
    /\ bosses = log.bossesHit

\* a power-up of the given type was picked up in the last frame
Picked(l, type) == \E n \in DOMAIN l.picked : l.picked[n] = type

\* C26: a frame that picks up a SHIELD leaves shieldActive true (also when
\* it was true before: the flag does not count); a frame without a hit
\* leaves a set shieldActive set, whatever time has passed; shieldActive is
\* set by nothing but a SHIELD pickup.
C26_ShieldPersists ==
    [][IsTick =>
          /\ Picked(log', "SHIELD") => player'.shieldActive
          /\ (player.shieldActive /\ Len(log'.hits) = 0) => player'.shieldActive
          /\ (player'.shieldActive /\ ~player.shieldActive) => Picked(log', "SHIELD")
          /\ player'.shieldActive \in BOOLEAN]_vars

\* the shield picked up two frames ago is still up, one frame after the
\* TRIPLE_SHOT pickup that followed it
C26_Witness ==
    /\ log.tick
    /\ gameState = "PLAYING"
    /\ player.shieldActive
    /\ ~Picked(log, "SHIELD")
    /\ Len(log.hits) = 0
    /\ player.activePowerUp = "TRIPLE_SHOT"
    /\ player.powerUpTimer > InitClock
    /\ clock > player.powerUpTimer

\* C27: a frame at time t that picks up a TRIPLE_SHOT leaves activePowerUp
\* set to it with its timer at t, also when a power-up was active, and
\* requests "triple_threat"; a frame without such a pickup keeps the timer,
\* keeps activePowerUp while now - timer <= 10000 and clears it when
\* now - timer > 10000.
C27_TripleShotWindow ==
    [][IsTick =>
          IF Picked(log', "TRIPLE_SHOT")
          THEN /\ player'.activePowerUp = "TRIPLE_SHOT"
               /\ player'.powerUpTimer = clock'
               /\ Emitted(events', "achievement", "triple_threat")
          ELSE /\ player'.powerUpTimer = player.powerUpTimer
               /\ player'.activePowerUp =
                     IF clock' - player.powerUpTimer <= POWERUP_DURATION
                     THEN player.activePowerUp ELSE NoPowerUp]_vars

\* the window restarted by a pickup in the last frame
C27_Witness ==
    /\ log.tick
    /\ Picked(log, "TRIPLE_SHOT")
    /\ player.activePowerUp = "TRIPLE_SHOT"
    /\ player.powerUpTimer = clock
    /\ Emitted(events, "achievement", "triple_threat")

\* the window ended: more than 10000 ms since the timer, nothing active
C27_Expired ==
    /\ log.tick
    /\ gameState = "PLAYING"
    /\ player.activePowerUp = NoPowerUp
    /\ clock - player.powerUpTimer > POWERUP_DURATION
    /\ clock - player.powerUpTimer <= POWERUP_DURATION + 1200
    /\ player.powerUpTimer = InitClock - 9000

\* C28: every enemy the spawner pushed has the type its level and draw r
\* select (HEAVY if level >= 7 and r > 0.9, else RANGED if level >= 5 and
\* r > 0.75, else FAST if level >= 3 and r > 0.6, else BASIC) and the health
\* base + floor(level / 2), and more than max(300, 1500 - 120 * level) ms had
\* passed since the previous spawn.
C28_Spawn ==
    /\ log.spawned = Len(log.spawns)
    /\ \A n \in DOMAIN log.spawns :
          LET sp == log.spawns[n]
              type == IF sp.level >= 7 /\ sp.rand > 900 THEN "HEAVY"
                      ELSE IF sp.level >= 5 /\ sp.rand > 750 THEN "RANGED"
                      ELSE IF sp.level >= 3 /\ sp.rand > 600 THEN "FAST"
                      ELSE "BASIC"
              least == IF 1500 - sp.level * 120 > 300
                       THEN 1500 - sp.level * 120 ELSE 300
          IN  /\ sp.enemy.type = type
              /\ sp.enemy.health = ENEMY_CONFIGS[type].health + sp.level \div 2
              /\ sp.elapsed > least

\* a RANGED enemy spawned at level 12 on the draw 0.8, with health 3 + 6
C28_Witness ==
    /\ log.tick
    /\ Len(log.spawns) = 1
    /\ log.spawns[1].level = 12
    /\ log.spawns[1].rand = 800
    /\ log.spawns[1].enemy.type = "RANGED"
    /\ log.spawns[1].enemy.health = 9
    /\ \E k \in DOMAIN enemies : enemies[k].type = "RANGED" /\ enemies[k].health = 9

\* the columns 0..9 of the rain in which a bullet of bs falls
RainColumns(bs) ==
    {c \in 0..9 : \E n \in DOMAIN bs :
        bs[n].x = Px(CANVAS_WIDTH \div 10) * c + Px(CANVAS_WIDTH \div 10) \div 2}

\* C29: every boss attack emits 12 bullets (20 at level >= 30) for the
\* circular burst, 3 (5 at level >= 30) for the targeted burst, 4 for the
\* spiral and 8 for the rain, one in each of the 10 columns but two adjacent
\* ones; beside them it emits either nothing or 20 bullets of damage 2, and
\* these only at level >= 50; every bullet has isEnemy = TRUE.
C29_BossAttack ==
    \A n \in DOMAIN log.attacks :
        LET a == log.attacks[n]
            main == SelectSeq(a.bullets, LAMBDA b : b.damage = 1)
            extra == SelectSeq(a.bullets, LAMBDA b : b.damage = 2)
            count == CASE a.draw.pattern = 0 -> IF a.level >= 30 THEN 20 ELSE 12
                       [] a.draw.pattern = 1 -> IF a.level >= 30 THEN 5 ELSE 3
                       [] a.draw.pattern = 2 -> 4
                       [] OTHER -> 8
        IN  /\ Len(a.bullets) = Len(main) + Len(extra)
            /\ Len(main) = count
            /\ Len(extra) \in {0, 20}
            /\ Len(extra) = 20 => a.level >= 50
            /\ \A k \in DOMAIN a.bullets : a.bullets[k].isEnemy
            /\ a.draw.pattern = 3 =>
                  /\ Cardinality(RainColumns(main)) = 8
                  /\ \E g \in 0..8 : (0..9) \ RainColumns(main) = {g, g + 1}

\* a level-50 rain with the 20 extra bullets: 28 bullets
C29_Witness ==
    /\ log.tick
    /\ Len(log.attacks) = 1
    /\ log.attacks[1].level = 50
    /\ log.attacks[1].draw.pattern = 3
    /\ Len(log.attacks[1].bullets) = 28
    /\ log.bossShots = 28

\* a level-30 circular burst: 20 bullets
C29_Burst ==
    /\ log.tick
    /\ Len(log.attacks) = 1
    /\ log.attacks[1].level = 30
    /\ log.attacks[1].draw.pattern = 0
    /\ Len(log.attacks[1].bullets) = 20

\* C31: every step from START or GAMEOVER into PLAYING leaves score 0,
\* level 1, full health, last healed level 1, no shield, no invincibility,
\* no active power-up, no warning flag and empty enemies, bullets, power-ups,
\* particles and bosses, and reports score 0, level 1 and the full health.
C31_RunStart ==
    [][(gameState \in {"START", "GAMEOVER"} /\ gameState' = "PLAYING") =>
          /\ score' = 0
          /\ level' = 1
          /\ health' = PLAYER_MAX_HEALTH
          /\ lastLevelHealed' = 1
          /\ ~player'.shieldActive
          /\ ~player'.invincible
          /\ player'.activePowerUp = NoPowerUp
          /\ ~bossWarningActive'
          /\ enemies' = << >>
          /\ bullets' = << >>
          /\ powerUps' = << >>
          /\ particles' = << >>
          /\ bosses' = << >>
          /\ \E n \in DOMAIN events' :
                events'[n].type = "score" /\ events'[n].value = 0
          /\ \E n \in DOMAIN events' :
                events'[n].type = "level" /\ events'[n].value = 1
          /\ \E n \in DOMAIN events' :
                events'[n].type = "health" /\ events'[n].value = PLAYER_MAX_HEALTH]_vars

\* a run restarted after the hit that ended the previous one
C31_Witness ==
    /\ gameState = "PLAYING"
    /\ ~log.tick
    /\ events = <<Ev("score", 0, ""), Ev("level", 1, ""),
                  Ev("health", PLAYER_MAX_HEALTH, "")>>
    /\ score = 0 /\ level = 1 /\ health = PLAYER_MAX_HEALTH
    /\ player.invincibleTimer = clock
    /\ ~player.invincible

\* C32: a frame raises the level by at most one, however many enemies it
\* kills.
C32_OneLevelPerTick ==
    [][IsTick => level' <= level + 1]_vars

\* C33: a frame that reports a boss name schedules a callback 3000 ms
\* later; a pending callback leaves only by running, at its due time, and
\* then reports the null name; the null name is reported by nothing else;
\* and every pending callback eventually runs, whatever game-state
\* transitions happen in between.
C33_WarningEnds ==
    /\ [][
         /\ (IsTick /\ \E n \in DOMAIN events' :
                          events'[n].type = "bossWarning" /\ events'[n].id # "") =>
               /\ Len(timers') = Len(timers) + 1
               /\ timers'[Len(timers')].due = clock' + 3000
         /\ timers' # timers =>
               \/ /\ IsTick
                  /\ SubSeq(timers', 1, Len(timers)) = timers
               \/ /\ timers' = Tail(timers)
                  /\ clock' = Head(timers).due
                  /\ events' = <<Ev("bossWarning", 0, "")>>
         /\ (Emitted(events', "bossWarning", "")
               /\ ~Emitted(events, "bossWarning", "")) =>
               (Len(timers) > 0 /\ timers' = Tail(timers))
       ]_vars
    /\ (Len(timers) > 0) ~> (Len(timers) = 0)

\* the callback of a warning ran while the game was paused
C33_Witness ==
    /\ gameState = "PAUSED"
    /\ events = <<Ev("bossWarning", 0, "")>>
    /\ timers = << >>
    /\ clock >= InitClock + 3000

\* C34: a frame in which every bullet is an enemy bullet (none in flight
\* is the player's and the player does not fire) leaves the health of every
\* boss as it was and awards no score: bullets with isEnemy = TRUE damage
\* neither enemies nor bosses.
C34_EnemyBulletsHarmless ==
    [][(/\ IsTick
        /\ \A n \in DOMAIN bullets : bullets[n].isEnemy
        /\ log'.shots = 0) =>
          /\ Len(log'.awards) = 0
          /\ \A j \in DOMAIN log'.bossesHit :
                j \in DOMAIN bosses =>
                    log'.bossesHit[j].health = bosses[j].health]_vars

\* C35: a bullet of the pass hits at most one target: no bullet that has
\* been marked dead (y = -100) by a hit takes health from a boss or enemy.
C35_OneTargetPerBullet ==
    \A n \in DOMAIN log.struck : log.struck[n].y # Px(-100)

\* C36: after every frame every regular enemy in the collection has
\* health > 0.
C36_EnemiesAlive ==
    (log.tick /\ gameState = "PLAYING") =>
        \A k \in DOMAIN enemies : enemies[k].health > 0

\* C37: while the game is PLAYING a boss is present only at the levels 5,
\* 10, 20, 30 and 50, and every boss present has the width, the full health
\* and the scoreValue configured for the current level.
C37_BossOfLevel ==
    (gameState = "PLAYING" /\ Len(bosses) > 0) =>
        /\ level \in BossLevels
        /\ \A j \in DOMAIN bosses :
              /\ bosses[j].width = Px(BOSS_CONFIGS[level].width)
              /\ bosses[j].maxHealth = BOSS_CONFIGS[level].health
              /\ bosses[j].scoreValue = BOSS_CONFIGS[level].scoreValue

\* C38: no boss encounter is skipped: a level 5, 10, 20, 30 or 50 reached
\* by a kill is still the level when the frame ends, and a frame changes the
\* level from one of these only with the bosses of its encounter present.
C38_NoEncounterSkipped ==
    [][(IsTick /\ gameState' = "PLAYING") =>
          /\ \A n \in DOMAIN log'.awards :
                (/\ log'.awards[n].levelAfter \in BossLevels
                 /\ log'.awards[n].levelAfter # log'.awards[n].levelBefore) =>
                    level' = log'.awards[n].levelAfter
          /\ (level \in BossLevels /\ level' # level) => Len(bosses) > 0]_vars

\* C39: resuming from PAUSED leaves score, level and health at the values
\* they had when the pause began.
C39_ResumeKeepsRun ==
    [][(gameState = "PAUSED" /\ gameState' = "PLAYING") =>
          (score' = score /\ level' = level /\ health' = health)]_vars

\* C40: the host's best score never decreases and, after a step that
\* reports scores, is at least every score reported.
C40_BestScore ==
    [][/\ bestScore' >= bestScore
       /\ events' # events =>
             \A n \in DOMAIN events' :
                 events'[n].type = "score" => bestScore' >= events'[n].value]_vars

====
